---- MODULE Spec2Model ----
(***************************************************************************)
(* A model of the mtg MTPROTO proxy: the per-IP admission controller       *)
(* (mtglib/rate_limiter.go), the Telegram DC connection pool               *)
(* (mtglib/internal/telegram/pool.go, telegram.go), the anti-replay filter *)
(* (antireplay/stable_bloom_filter_metrics.go), the per-connection         *)
(* pipeline of Proxy.ServeConn (mtglib/proxy.go), the event stream         *)
(* (events/event_stream.go), the relay (mtglib/internal/relay/relay.go),   *)
(* Proxy.Serve and Proxy.Shutdown, and connRewind (mtglib/conns.go).       *)
(*                                                                         *)
(* Each subsystem has its own specification over the one set of variables; *)
(* a specification leaves the variables of the other subsystems alone.     *)
(***************************************************************************)
EXTENDS Integers, Sequences, FiniteSets, TLC

VARIABLES
    \* ---- RateLimiter (mtglib/rate_limiter.go)
    limiters,     \* rl.limiters: address -> which of its rate.Limiter objects the map holds, 0 = no entry
    lastUsed,     \* rl.lastUsed: address -> time of the last slow-path Allow, -1 = no entry
    lims,         \* the rate.Limiter objects made so far for each address, in order of
                  \* creation: address -> sequence of [tokens, last]
    rlNow,        \* the clock read by Allow and by the sweeper (milliseconds)
    nextSweep,    \* the time of the next tick of cleanupLoop's ticker
    call,         \* the Allow calls in progress: caller -> [pc, ip, lim]
    admitLog,     \* observation: address -> times of the Allow calls that returned true
                  \* within the last second
    overCap,      \* observation: some Allow call inserted an entry into a map already at the cap
    \* ---- Telegram DC connection pool (mtglib/internal/telegram/pool.go, telegram.go)
    sock,         \* the TCP connections to Telegram ever dialed: id -> pooledConn fields and
                  \* socket state
    conns,        \* DCPool.conns of each DC: the buffered channel of idle connections
    pools,        \* ConnectionPoolManager.pools: the DCs that have a sub-pool
    mClosed,      \* ConnectionPoolManager.closed
    pClosed,      \* DCPool.closed of each DC
    stats,        \* DCPool.stats of each DC
    now,          \* the clock read by isHealthy, markUsed, Put and dial (seconds)
    pcall,        \* the pool call each goroutine is in: [op, dc]
    lease,        \* the connection handle each goroutine got from Telegram.Dial:
                  \* [kind, sock, closed, released]
    sw,           \* cleanupLoop / evictStale of each DC: [pc, n, i, hold]
    handout,      \* observation: how the connection of each goroutine's last Get was obtained
    deadBy,       \* observation: which operation closed each socket
    \* ---- Proxy.ServeConn (mtglib/proxy.go) and the anti-replay filter
    cfg,          \* the proxy's options: [useConnPool, allowFallbackOnUnknownDC,
                  \* fallbackOnDialError]
    cn,           \* the connection each worker goroutine is serving: its position in
                  \* ServeConn, the client socket, the stream context's fields, and
                  \* observations of what happened to it
    cells,        \* the cells of the stable Bloom filter
    passed,       \* observation: SessionID -> how many connections the filter let through
                  \* since the filter last started to retain that id
    hsRun,        \* observation: the DC sockets obfuscated2.ServerHandshake was run on
    started,      \* observation: connections admitted so far
    hist,         \* observation: the connections that ended, in order
    \* ---- EventStream (events/event_stream.go)
    chans,        \* e.chans: shard -> the events queued in its buffered channel
    dropped,      \* e.dropped
    esDone,       \* e.ctx is cancelled (EventStream.Shutdown was called)
    proc,         \* eventStreamProcessor of each shard: "run" or "exit"
    snd,          \* the Send call each sender is in: [pc, evt, shard]
    sctx,         \* whether the context each sender passes to Send is cancelled
    nEvents,      \* observation: Send calls begun so far
    got,          \* observation: shard -> the events its observer was invoked for, in order
    returned,     \* observation: the events whose Send call has returned
    before,       \* observation: pairs <<a, b>> of event ids, a's Send returned before
                  \* b's Send began
    fullSeen,     \* observation: Traffic Sends that found their shard's queue full
    \* ---- relay.Relay (mtglib/internal/relay/relay.go)
    rconn,        \* telegramConn and clientConn: [rd, wr, closed, inbox, sent, fin, rst]
    pump,         \* the two pump calls: [pc, n, late]; n counts the chunks written, late
                  \* observes a chunk written after the other pump had returned
    rctx,         \* the context of Relay is cancelled
    cg,           \* the goroutine that waits for the context: "wait", "client", "done"
    rret,         \* Relay has returned
    \* ---- Proxy.Serve and Proxy.Shutdown (mtglib/proxy.go)
    wg,           \* the counter of p.streamWaitGroup
    srv,          \* Serve: "off", "accept" (in its loop), "done" (returned)
    lst,          \* the listener given to Serve: "open" or "closed"
    pctx,         \* p.ctx is cancelled
    worker,       \* the goroutines of the ants pool: "idle", "handed" (Invoke gave it a
                  \* connection, ServeConn not yet entered), "serving" (inside ServeConn)
    accepted,     \* observation: connections the listener has handed out
    sd,           \* Shutdown: the call it is about to make, "off" before it is called
    stopped,      \* what Shutdown has shut so far: worker pool, limiter, DC pools
    \* ---- connRewind (mtglib/conns.go)
    rwStream,     \* the bytes the client sends on the wrapped connection, in order
    rwPos,        \* how many of them have been read from the connection
    rwBuf,        \* c.buf
    rwActive,     \* c.active: "tee" or "multi"; "none" before newConnRewind
    rwPre,        \* observation: the bytes Read returned before Rewind
    rwOut,        \* observation: the bytes Read returned after Rewind
    \* ---- the stable Bloom filter on its own (antireplay/stable_bloom_filter_metrics.go)
    fseen,        \* observation: the digests passed to SeenBefore so far
    fret,         \* observation: the SeenBefore calls in order, each [d, prior, seen]:
                  \* the digest, whether an earlier call had it, the result
    fcalls,       \* observation: SeenBefore calls so far
    \* ---- faketls.Conn (mtglib/internal/faketls/conn.go) and the connection under it
    tlsWire,      \* the bytes written to the connection and not yet read from it
    readBuffer,   \* Conn.readBuffer: payload bytes of a record not yet returned
    tlsSent,      \* observation: the bytes given to Write so far
    tlsGot,       \* observation: the bytes returned by Read so far
    lastWrite,    \* observation: the last Write, [n, out]: the length of its argument
                  \* and the bytes it wrote to the connection
    lastRead,     \* observation: the last Read, [first, n, err]: the type of the first
                  \* record it took from the connection, the number of bytes it
                  \* returned, whether it returned an error
    nInject,      \* observation: records the peer wrote on the connection itself
    \* ---- the address list of a DC sub-pool (mtglib/internal/telegram/pool.go)
    dcAddrs,      \* DCPool.addrs of the sub-pool of each DC, << >> while it has none
    adCall,       \* the ConnectionPoolManager.Get each caller is in: [pc, dc, addrs]
    dialLog,      \* observation: the dials done, each [dc, asked, list, addr]: the list
                  \* given to the Get, the list dial went through, the address it
                  \* connected to (0 when none answered)
    \* ---- cooldownDialer (network package)
    cbFailures,   \* cooldownDialer.failuresCount
    cbUntil,      \* cooldownDialer.cooldownUntil, 0 for the zero time
    cbNow,        \* the clock time.Now reads
    cbCall,       \* where the DialContext of each caller is: "idle" before the first,
                  \* "dialing" inside the underlying dialer, else how the last one
                  \* returned: "rejected", "ok", "err", "ctx"
    cbStarted,    \* observation: the time at which each caller's last DialContext began
    cbBegan,      \* observation: the time at which the last cooldown began, 0 if none
    \* ---- connTraffic (mtglib/conns.go)
    tcAcc,        \* *readAcc and *writeAcc, by direction
    tcOp,         \* where the Read or Write in flight is, by direction: [pc, n, acc]
    tcFlush,      \* where the FlushTraffic or Close in flight is: [pc, close]
    tcClosed,     \* the wrapped connection is closed
    tcMoved,      \* observation: bytes the wrapped connection transferred, by direction
    tcSent,       \* observation: the sum of the Traffic events sent, by direction
    \* ---- obfuscated2.Conn (mtglib/internal/obfuscated2/conn.go)
    obIn,         \* the bytes the wrapped connection has returned to Read so far
    obOut,        \* observation: the bytes Read has reported to its caller so far
    obKs,         \* the keystream bytes the Decryptor has consumed
    obLast,       \* observation: the last Read, [n, err]
    \* ---- LRUDNSCache (network package)
    lruList,      \* LRUDNSCache.lruList, front first, each [key, expiresAt]; the map
                  \* cache holds the element of every key in it
    dnsNow,       \* the clock time.Now reads
    dnsClock,     \* observation: the Set and Get calls so far
    dnsTouch,     \* observation: by key, the number of the last Set or successful Get
                  \* of an entry in the cache, 0 for a key not in it
    dnsLast       \* observation: the last call, [op, key, hit, evicted]

rlVars == <<limiters, lastUsed, lims, rlNow, nextSweep, call, admitLog, overCap>>

poolVars == <<sock, conns, pools, mClosed, pClosed, stats, now, pcall, lease, sw,
              handout, deadBy>>

proxyVars == <<cfg, cn, cells, passed, hsRun, started, hist>>

evVars == <<chans, dropped, esDone, proc, snd, sctx, nEvents, got, returned, before,
            fullSeen>>

relayVars == <<rconn, pump, rctx, cg, rret>>

sdVars == <<wg, srv, lst, pctx, worker, accepted, sd, stopped>>

rwVars == <<rwStream, rwPos, rwBuf, rwActive, rwPre, rwOut>>

flVars == <<fseen, fret, fcalls>>

tlsVars == <<tlsWire, readBuffer, tlsSent, tlsGot, lastWrite, lastRead, nInject>>

adVars == <<dcAddrs, adCall, dialLog>>

cbVars == <<cbFailures, cbUntil, cbNow, cbCall, cbStarted, cbBegan>>

tcVars == <<tcAcc, tcOp, tcFlush, tcClosed, tcMoved, tcSent>>

obVars == <<obIn, obOut, obKs, obLast>>

dnsVars == <<lruList, dnsNow, dnsClock, dnsTouch, dnsLast>>

\* The variables that the specifications of the limiter, the pool and the pipeline
\* leave alone.
extVars == <<evVars, relayVars, sdVars, rwVars, flVars, tlsVars, adVars, cbVars, tcVars, obVars, dnsVars>>

vars == <<rlVars, poolVars, proxyVars, extVars>>

\* The variables that the specification of the event stream leaves alone.
notEvVars == <<rlVars, poolVars, proxyVars, relayVars, sdVars, rwVars, flVars, tlsVars, adVars, cbVars, tcVars, obVars, dnsVars>>

\* The variables that the specification of the relay leaves alone.
notRelayVars == <<rlVars, poolVars, proxyVars, evVars, sdVars, rwVars, flVars, tlsVars, adVars, cbVars, tcVars, obVars, dnsVars>>

\* The variables that the specification of Serve and Shutdown leaves alone.
notSdVars == <<rlVars, poolVars, proxyVars, evVars, relayVars, rwVars, flVars, tlsVars, adVars, cbVars, tcVars, obVars, dnsVars>>

\* The variables that the specification of connRewind leaves alone.
notRwVars == <<rlVars, poolVars, proxyVars, evVars, relayVars, sdVars, flVars, tlsVars, adVars, cbVars, tcVars, obVars, dnsVars>>

\* The variables that the specification of the filter on its own leaves alone.
notFlVars == <<rlVars, poolVars, cfg, cn, passed, hsRun, started, hist, evVars, relayVars,
               sdVars, rwVars, tlsVars, adVars, cbVars, tcVars, obVars, dnsVars>>

\* The variables that the specification of the record layer leaves alone.
notTlsVars == <<rlVars, poolVars, proxyVars, evVars, relayVars, sdVars, rwVars, flVars,
                adVars, cbVars, tcVars, obVars, dnsVars>>

\* The variables that the specification of the sub-pools' address lists leaves alone.
notAdVars == <<rlVars, poolVars, proxyVars, evVars, relayVars, sdVars, rwVars, flVars,
               tlsVars, cbVars, tcVars, obVars, dnsVars>>

\* The variables that the specification of the cooldown dialer leaves alone.
notCbVars == <<rlVars, poolVars, proxyVars, evVars, relayVars, sdVars, rwVars, flVars,
               tlsVars, adVars, tcVars, obVars, dnsVars>>

\* The variables that the specification of connTraffic leaves alone.
notTcVars == <<rlVars, poolVars, proxyVars, evVars, relayVars, sdVars, rwVars, flVars,
               tlsVars, adVars, cbVars, obVars, dnsVars>>

\* The variables that the specification of obfuscated2.Conn leaves alone.
notObVars == <<rlVars, poolVars, proxyVars, evVars, relayVars, sdVars, rwVars, flVars,
               tlsVars, adVars, cbVars, tcVars, dnsVars>>

\* The variables that the specification of the DNS cache leaves alone.
notDnsVars == <<rlVars, poolVars, proxyVars, evVars, relayVars, sdVars, rwVars, flVars,
                tlsVars, adVars, cbVars, tcVars, obVars>>


Min(x, y) == IF x <= y THEN x ELSE y
Max(x, y) == IF x >= y THEN x ELSE y

(***************************************************************************)
(*                         RateLimiter                                     *)
(***************************************************************************)

\* The cap on tracked addresses that the specification and the audit note ask for
\* (50,000 there); rate_limiter.go itself defines none.
RateLimiterCap == 1
\* One address more than the cap, so that the cap can be approached and passed.
IPs == 1..(RateLimiterCap + 1)
\* Concurrent callers of Allow (worker goroutines running ServeConn).
NumCallers == 2
Callers == 1..NumCallers
\* rl.r: tokens per second, rl.b: burst, rl.cleanup: the sweeper's period (ms).
rl_r == 1
rl_b == 2
rl_cleanup == 1000
\* Clock granularity and horizon (ms).
TickMs == 1000
MaxNow == 3000
\* Limiter objects ever made for one address.
MaxLimiters == 2
\* One token, in the fixed-point unit the bucket is kept in (rate.Limiter keeps a float).
TokenUnit == 1000
\* The length of the window the admission rate is measured over (ms).
WindowMs == 1000

\* rate.NewLimiter(r, b): a bucket that starts full.
NewLimiter(t) == [tokens |-> rl_b * TokenUnit, last |-> t]

\* rate.Limiter.advance: the tokens available at time t.
LimTokensAt(l, t) ==
    LET elapsed == Max(0, t - l.last)
    IN  Min(rl_b * TokenUnit, l.tokens + elapsed * rl_r)

\* rate.Limiter.Allow at time t: whether a token is granted.
LimAllow(l, t) == LimTokensAt(l, t) >= TokenUnit

\* rate.Limiter.Allow at time t: the bucket afterwards.
LimAfterAllow(l, t) ==
    IF LimAllow(l, t)
    THEN [tokens |-> LimTokensAt(l, t) - TokenUnit, last |-> t]
    ELSE l

Tracked == {ip \in IPs : limiters[ip] # 0}

RLInit ==
    /\ limiters = [ip \in IPs |-> 0]
    /\ lastUsed = [ip \in IPs |-> -1]
    /\ lims = [ip \in IPs |-> << >>]
    /\ rlNow = 0
    /\ nextSweep = rl_cleanup
    /\ call = [p \in Callers |-> [pc |-> "idle", ip |-> 0, lim |-> 0]]
    /\ admitLog = [ip \in IPs |-> << >>]
    /\ overCap = FALSE

\* Allow, fast path: the lookup under RLock (rate_limiter.go:49-55).
AllowFast(p, ip) ==
    /\ call[p].pc = "idle"
    /\ call' = [call EXCEPT ![p] =
                  IF limiters[ip] # 0
                  THEN [pc |-> "have", ip |-> ip, lim |-> limiters[ip]]
                  ELSE [pc |-> "slow", ip |-> ip, lim |-> 0]]
    /\ UNCHANGED <<limiters, lastUsed, lims, rlNow, nextSweep, admitLog, overCap>>
    /\ UNCHANGED <<poolVars, proxyVars, extVars>>

\* The second lookup of Allow, under the write lock (rate_limiter.go:60-61).
DoubleCheckSkipped(ip) == FALSE
DoubleCheck(ip) == limiters[ip] # 0

\* Allow, slow path: the section under the write lock (rate_limiter.go:58-66).
AllowSlow(p) ==
    /\ call[p].pc = "slow"
    /\ LET ip == call[p].ip
           exists == DoubleCheck(ip)
       IN  /\ exists \/ Len(lims[ip]) < MaxLimiters
           /\ lims' = IF exists THEN lims
                      ELSE [lims EXCEPT ![ip] = Append(@, NewLimiter(rlNow))]
           /\ limiters' = IF exists THEN limiters
                          ELSE [limiters EXCEPT ![ip] = Len(lims[ip]) + 1]
           /\ lastUsed' = [lastUsed EXCEPT ![ip] = rlNow]
           /\ call' = [call EXCEPT ![p].pc = "have",
                                   ![p].lim = IF exists THEN limiters[ip] ELSE Len(lims[ip]) + 1]
           /\ overCap' = (overCap \/ (~exists /\ Cardinality(Tracked) >= RateLimiterCap))
    /\ UNCHANGED <<rlNow, nextSweep, admitLog>>
    /\ UNCHANGED <<poolVars, proxyVars, extVars>>

\* Allow: limiter.Allow() on the bucket found or made (rate_limiter.go:54, 68).
AllowTake(p) ==
    /\ call[p].pc = "have"
    /\ LET ip == call[p].ip
           id == call[p].lim
           ok == LimAllow(lims[ip][id], rlNow)
       IN  /\ lims' = [lims EXCEPT ![ip][id] = LimAfterAllow(lims[ip][id], rlNow)]
           /\ admitLog' = IF ok THEN [admitLog EXCEPT ![ip] = Append(@, rlNow)] ELSE admitLog
    /\ call' = [call EXCEPT ![p] = [pc |-> "idle", ip |-> 0, lim |-> 0]]
    /\ UNCHANGED <<limiters, lastUsed, rlNow, nextSweep, overCap>>
    /\ UNCHANGED <<poolVars, proxyVars, extVars>>

\* Whether cleanupLoop removes the entry of ip at time t (rate_limiter.go:88-92).
Stale(ip, t) == lastUsed[ip] # -1 /\ t - lastUsed[ip] > rl_cleanup * 2

\* One tick of cleanupLoop's ticker (rate_limiter.go:85-94).
Sweep ==
    /\ rlNow >= nextSweep
    /\ limiters' = [ip \in IPs |-> IF Stale(ip, rlNow) THEN 0 ELSE limiters[ip]]
    /\ lastUsed' = [ip \in IPs |-> IF Stale(ip, rlNow) THEN -1 ELSE lastUsed[ip]]
    /\ nextSweep' = nextSweep + rl_cleanup
    /\ UNCHANGED <<lims, rlNow, call, admitLog, overCap>>
    /\ UNCHANGED <<poolVars, proxyVars, extVars>>

RECURSIVE DropOlder(_, _)
DropOlder(s, t) ==
    IF s = << >> THEN s
    ELSE IF Head(s) < t THEN DropOlder(Tail(s), t) ELSE s

\* Time passes.
RLTick ==
    /\ rlNow < MaxNow
    /\ rlNow' = rlNow + TickMs
    /\ admitLog' = [ip \in IPs |-> DropOlder(admitLog[ip], rlNow + TickMs - WindowMs)]
    /\ UNCHANGED <<limiters, lastUsed, lims, nextSweep, call, overCap>>
    /\ UNCHANGED <<poolVars, proxyVars, extVars>>

RLNext ==
    \/ \E p \in Callers, ip \in IPs : AllowFast(p, ip)
    \/ \E p \in Callers : AllowSlow(p)
    \/ \E p \in Callers : AllowTake(p)
    \/ Sweep
    \/ RLTick


(***************************************************************************)
(*              Telegram DC connection pool                                *)
(***************************************************************************)

\* Telegram DCs that have addresses, goroutines that dial, sockets ever dialed.
NumDCs == 2
DCs == 1..NumDCs
NumProcs == 2
Procs == 1..NumProcs
MaxSocks == 2
Socks == 1..MaxSocks
\* PoolConfig.MaxIdleConns: the capacity of DCPool.conns.
MaxIdleConns == 1
\* Get calls a pool client makes in all.
MaxGets == 3
\* Seconds.
DefaultIdleTimeout == 20
maxConnectionAge == 30
TickSeconds == 20
MaxTime == 40

NoSock == [st |-> "none", dc |-> 0, createdAt |-> 0, lastUsedAt |-> 0, via |-> "none"]
NoLease == [kind |-> "none", sock |-> 0, closed |-> FALSE, released |-> 0]
NoCall == [op |-> "none", dc |-> 0]
NoStats == [hits |-> 0, misses |-> 0, created |-> 0, closed |-> 0, unhealthy |-> 0]

\* pooledConn.isHealthy(idleTimeout) at time t.
isHealthy(c, t) ==
    /\ ~(t - c.lastUsedAt > DefaultIdleTimeout)
    /\ ~(t - c.createdAt > maxConnectionAge)

\* &pooledConn{Conn, dc, createdAt: time.Now(), lastUsedAt: time.Now()} on a fresh socket.
NewPooledConn(dc, t, via) ==
    [st |-> "open", dc |-> dc, createdAt |-> t, lastUsedAt |-> t, via |-> via]

\* The socket ids not yet used by a dial.
FreeSocks == {s \in Socks : sock[s].st = "none"}
NextSock == CHOOSE s \in FreeSocks : \A u \in FreeSocks : s <= u

\* conn.Close() on the socket itself.
CloseSock(socks, s) == [socks EXCEPT ![s].st = "closed"]

Bump(st, dc, field) == [st EXCEPT ![dc][field] = @ + 1]

PoolInit ==
    /\ sock = [s \in Socks |-> NoSock]
    /\ conns = [dc \in DCs |-> << >>]
    /\ pools = {}
    /\ mClosed = FALSE
    /\ pClosed = [dc \in DCs |-> FALSE]
    /\ stats = [dc \in DCs |-> NoStats]
    /\ now = 0
    /\ pcall = [p \in Procs |-> NoCall]
    /\ lease = [p \in Procs |-> NoLease]
    /\ sw = [dc \in DCs |-> [pc |-> "off", n |-> 0, i |-> 0, hold |-> 0]]
    /\ handout = [p \in Procs |-> "none"]
    /\ deadBy = [s \in Socks |-> "none"]

\* ConnectionPoolManager.Get up to pool.Get's closed check: GetPool makes the sub-pool
\* (and starts its cleanupLoop) when the DC has none.
GetPoolStep(p) ==
    LET dc == pcall[p].dc
    IN  /\ pools' = pools \cup {dc}
        /\ sw' = IF dc \in pools THEN sw ELSE [sw EXCEPT ![dc].pc = "wait"]
        /\ pcall' = [pcall EXCEPT ![p].op = IF pClosed[dc] THEN "err" ELSE "get"]
        /\ UNCHANGED <<sock, conns, mClosed, pClosed, stats, now, lease, handout, deadBy>>

\* DCPool.Get line 161: whether the dequeued connection is handed out.
GetAcceptsAlways(c, t) == TRUE
GetAccepts(c, t) == isHealthy(c, t)

\* The counter Get bumps when it drops a dequeued connection (pool.go:168).
GetRejectCounter(st, dc) == Bump(st, dc, "unhealthy")

\* The counter Get bumps when it hands out a dequeued connection (pool.go:163).
GetAcceptCounterMisses(st, dc) == Bump(st, dc, "misses")
GetAcceptCounter(st, dc) == Bump(st, dc, "hits")

\* One iteration of the loop of DCPool.Get, with Telegram.Dial's wrapping of the result.
GetLoopStep(p) ==
    LET dc == pcall[p].dc
    IN  IF conns[dc] # << >>
        THEN LET s == Head(conns[dc])
             IN  /\ conns' = [conns EXCEPT ![dc] = Tail(@)]
                 /\ IF GetAccepts(sock[s], now)
                    THEN /\ sock' = [sock EXCEPT ![s].lastUsedAt = now]
                         /\ stats' = GetAcceptCounter(stats, dc)
                         /\ lease' = [lease EXCEPT ![p] =
                                [kind |-> "pooled", sock |-> s, closed |-> FALSE, released |-> 0]]
                         /\ pcall' = [pcall EXCEPT ![p].op = "ok"]
                         /\ handout' = [handout EXCEPT ![p] =
                                IF isHealthy(sock[s], now) THEN "hit" ELSE "hit_unhealthy"]
                         /\ UNCHANGED deadBy
                    ELSE /\ sock' = CloseSock(sock, s)
                         /\ stats' = GetRejectCounter(stats, dc)
                         /\ deadBy' = [deadBy EXCEPT ![s] = "get"]
                         /\ UNCHANGED <<lease, pcall, handout>>
        ELSE \E ok \in BOOLEAN :
                /\ ok => FreeSocks # {}
                /\ conns' = conns
                /\ IF ok
                   THEN /\ sock' = [sock EXCEPT ![NextSock] = NewPooledConn(dc, now, "pool")]
                        /\ stats' = Bump(Bump(stats, dc, "misses"), dc, "created")
                        /\ lease' = [lease EXCEPT ![p] =
                               [kind |-> "pooled", sock |-> NextSock, closed |-> FALSE,
                                released |-> 0]]
                        /\ pcall' = [pcall EXCEPT ![p].op = "ok"]
                        /\ handout' = [handout EXCEPT ![p] = "dial"]
                   ELSE /\ stats' = Bump(stats, dc, "misses")
                        /\ pcall' = [pcall EXCEPT ![p].op = "err"]
                        /\ UNCHANGED <<sock, lease, handout>>
                /\ UNCHANGED deadBy

\* Whether the send of `select { case p.conns <- pc: ... default: ... }` is ready:
\* the channel was made with capacity MaxIdleConns.
HasRoomAlways(q) == TRUE
HasRoom(q) == Len(q) < MaxIdleConns

\* pc.lastUsedAt = time.Now() in Put (pool.go:204).
PutRefreshNot(c, t) == c
PutRefresh(c, t) == [c EXCEPT !.lastUsedAt = t]

\* DCPool.Put after its closed check: health check, lastUsedAt, non-blocking send.
PutStep(p) ==
    LET dc == pcall[p].dc
        s == lease[p].sock
    IN  /\ IF ~isHealthy(sock[s], now)
           THEN /\ sock' = CloseSock(sock, s)
                /\ stats' = Bump(stats, dc, "unhealthy")
                /\ deadBy' = [deadBy EXCEPT ![s] = "put"]
                /\ UNCHANGED conns
           ELSE IF HasRoom(conns[dc])
           THEN /\ sock' = [sock EXCEPT ![s] = PutRefresh(@, now)]
                /\ conns' = [conns EXCEPT ![dc] = Append(@, s)]
                /\ UNCHANGED <<stats, deadBy>>
           ELSE /\ sock' = CloseSock([sock EXCEPT ![s] = PutRefresh(@, now)], s)
                /\ stats' = Bump(stats, dc, "closed")
                /\ deadBy' = [deadBy EXCEPT ![s] = "full"]
                /\ UNCHANGED conns
        /\ pcall' = [pcall EXCEPT ![p] = NoCall]
        /\ UNCHANGED <<lease, handout>>

\* The next step of the pool call goroutine p is in.
PoolStep(p) ==
    /\ pcall[p].op \in {"getpool", "get", "put"}
    /\ CASE pcall[p].op = "getpool" -> GetPoolStep(p)
         [] pcall[p].op = "get" ->
                GetLoopStep(p) /\ UNCHANGED <<pools, mClosed, pClosed, now, sw>>
         [] pcall[p].op = "put" ->
                PutStep(p) /\ UNCHANGED <<pools, mClosed, pClosed, now, sw>>
    /\ UNCHANGED <<rlVars, proxyVars, extVars>>

\* c.closed.Swap(true) in PooledConn.Close and ForceClose: whether the wrapper was
\* closed already.
SwapClosedNever(l) == FALSE
SwapClosed(l) == l.closed

\* PooledConn.Close: the Swap, ConnectionPoolManager.Put and DCPool.Put's closed check.
PooledClose(p) ==
    LET s == lease[p].sock
        dc == sock[s].dc
    IN  IF SwapClosed(lease[p])
        THEN UNCHANGED <<sock, stats, pcall, lease, deadBy>>
        ELSE /\ lease' = [lease EXCEPT ![p].closed = TRUE, ![p].released = @ + 1]
             /\ IF dc \notin pools \/ pClosed[dc]
                THEN /\ sock' = CloseSock(sock, s)
                     /\ stats' = IF dc \in pools THEN Bump(stats, dc, "closed") ELSE stats
                     /\ deadBy' = [deadBy EXCEPT ![s] = "closedpool"]
                     /\ UNCHANGED pcall
                ELSE /\ pcall' = [pcall EXCEPT ![p] = [op |-> "put", dc |-> dc]]
                     /\ UNCHANGED <<sock, stats, deadBy>>

\* PooledConn.ForceClose.
PooledForceClose(p) ==
    LET s == lease[p].sock
    IN  IF SwapClosed(lease[p])
        THEN UNCHANGED <<sock, stats, pcall, lease, deadBy>>
        ELSE /\ lease' = [lease EXCEPT ![p].closed = TRUE, ![p].released = @ + 1]
             /\ sock' = CloseSock(sock, s)
             /\ deadBy' = [deadBy EXCEPT ![s] = "force"]
             /\ UNCHANGED <<stats, pcall>>

\* Get calls begun so far.
GetsBegun ==
    LET f[S \in SUBSET DCs] ==
            IF S = {} THEN 0
            ELSE LET d == CHOOSE x \in S : TRUE
                 IN  stats[d].hits + stats[d].misses + f[S \ {d}]
    IN  f[DCs] + Cardinality({p \in Procs : pcall[p].op \in {"getpool", "get"}})

\* A pool client calls Telegram.Dial(dc): ConnectionPoolManager.Get's closed check.
ClientDial(p, dc) ==
    /\ pcall[p].op \in {"none", "ok", "err"}
    /\ lease[p].kind = "none" \/ lease[p].closed
    /\ GetsBegun < MaxGets
    /\ pcall' = [pcall EXCEPT ![p] = IF mClosed THEN [op |-> "err", dc |-> dc]
                                     ELSE [op |-> "getpool", dc |-> dc]]
    /\ lease' = [lease EXCEPT ![p] = NoLease]
    /\ handout' = [handout EXCEPT ![p] = "none"]
    /\ UNCHANGED <<sock, conns, pools, mClosed, pClosed, stats, now, sw, deadBy>>
    /\ UNCHANGED <<rlVars, proxyVars, extVars>>

\* A pool client (any goroutine holding the wrapper) calls Close on its lease.
ClientClose(p) ==
    /\ lease[p].kind = "pooled"
    /\ pcall[p].op \in {"none", "ok", "err", "put"}
    /\ PooledClose(p)
    /\ UNCHANGED <<conns, pools, mClosed, pClosed, now, sw, handout>>
    /\ UNCHANGED <<rlVars, proxyVars, extVars>>

\* A pool client calls ForceClose on its lease.
ClientForceClose(p) ==
    /\ lease[p].kind = "pooled"
    /\ pcall[p].op \in {"none", "ok", "err", "put"}
    /\ PooledForceClose(p)
    /\ UNCHANGED <<conns, pools, mClosed, pClosed, now, sw, handout>>
    /\ UNCHANGED <<rlVars, proxyVars, extVars>>

\* evictStale's test of a dequeued connection (pool.go:306).
SweepKeepsAlways(c, t) == TRUE
SweepKeeps(c, t) == isHealthy(c, t)

\* cleanupLoop and evictStale of one sub-pool, one channel operation at a time.
EvictStep(dc) ==
    /\ sw[dc].pc \in {"wait", "scan", "hold"}
    /\ CASE sw[dc].pc = "wait" ->
                /\ Len(conns[dc]) > 0
                /\ sw' = [sw EXCEPT ![dc] = [pc |-> "scan", n |-> Len(conns[dc]), i |-> 0,
                                            hold |-> 0]]
                /\ UNCHANGED <<sock, conns, stats, deadBy>>
         [] sw[dc].pc = "scan" ->
                IF conns[dc] = << >>
                THEN /\ sw' = [sw EXCEPT ![dc] = [pc |-> "wait", n |-> 0, i |-> 0, hold |-> 0]]
                     /\ UNCHANGED <<sock, conns, stats, deadBy>>
                ELSE LET s == Head(conns[dc])
                         last == sw[dc].i + 1 = sw[dc].n
                     IN  /\ conns' = [conns EXCEPT ![dc] = Tail(@)]
                         /\ IF SweepKeeps(sock[s], now)
                            THEN /\ sw' = [sw EXCEPT ![dc].pc = "hold", ![dc].hold = s]
                                 /\ UNCHANGED <<sock, stats, deadBy>>
                            ELSE /\ sock' = CloseSock(sock, s)
                                 /\ stats' = Bump(stats, dc, "unhealthy")
                                 /\ deadBy' = [deadBy EXCEPT ![s] = "sweep"]
                                 /\ sw' = [sw EXCEPT ![dc] =
                                        IF last THEN [pc |-> "wait", n |-> 0, i |-> 0, hold |-> 0]
                                        ELSE [@ EXCEPT !.i = @ + 1]]
         [] sw[dc].pc = "hold" ->
                LET s == sw[dc].hold
                    last == sw[dc].i + 1 = sw[dc].n
                IN  /\ IF HasRoom(conns[dc])
                       THEN /\ conns' = [conns EXCEPT ![dc] = Append(@, s)]
                            /\ UNCHANGED <<sock, stats, deadBy>>
                       ELSE /\ sock' = CloseSock(sock, s)
                            /\ stats' = Bump(stats, dc, "closed")
                            /\ deadBy' = [deadBy EXCEPT ![s] = "sweepfull"]
                            /\ UNCHANGED conns
                    /\ sw' = [sw EXCEPT ![dc] =
                           IF last THEN [pc |-> "wait", n |-> 0, i |-> 0, hold |-> 0]
                           ELSE [pc |-> "scan", n |-> sw[dc].n, i |-> sw[dc].i + 1, hold |-> 0]]
    /\ UNCHANGED <<pools, mClosed, pClosed, now, pcall, lease, handout>>
    /\ UNCHANGED <<rlVars, proxyVars, extVars>>

\* cleanupLoop returns once stopCh is closed.
EvictStop(dc) ==
    /\ sw[dc].pc = "wait"
    /\ pClosed[dc]
    /\ sw' = [sw EXCEPT ![dc].pc = "stopped"]
    /\ UNCHANGED <<sock, conns, pools, mClosed, pClosed, stats, now, pcall, lease,
                   handout, deadBy>>
    /\ UNCHANGED <<rlVars, proxyVars, extVars>>

\* ConnectionPoolManager.Close: DCPool.Close of every sub-pool.
ManagerClose ==
    /\ ~mClosed
    /\ mClosed' = TRUE
    /\ pClosed' = [dc \in DCs |-> pClosed[dc] \/ dc \in pools]
    /\ conns' = [dc \in DCs |-> IF dc \in pools THEN << >> ELSE conns[dc]]
    /\ sock' = [s \in Socks |->
                  IF \E dc \in pools : \E k \in 1..Len(conns[dc]) : conns[dc][k] = s
                  THEN [sock[s] EXCEPT !.st = "closed"] ELSE sock[s]]
    /\ deadBy' = [s \in Socks |->
                  IF \E dc \in pools : \E k \in 1..Len(conns[dc]) : conns[dc][k] = s
                  THEN "poolclose" ELSE deadBy[s]]
    /\ stats' = [dc \in DCs |->
                  IF dc \in pools THEN [stats[dc] EXCEPT !.closed = @ + Len(conns[dc])]
                  ELSE stats[dc]]
    /\ UNCHANGED <<pools, now, pcall, lease, sw, handout>>
    /\ UNCHANGED <<rlVars, proxyVars, extVars>>

\* Time passes.
Tick ==
    /\ now < MaxTime
    /\ now' = now + TickSeconds
    /\ UNCHANGED <<sock, conns, pools, mClosed, pClosed, stats, pcall, lease, sw,
                   handout, deadBy>>
    /\ UNCHANGED <<rlVars, proxyVars, extVars>>

PoolNext ==
    \/ \E p \in Procs, dc \in DCs : ClientDial(p, dc)
    \/ \E p \in Procs : PoolStep(p)
    \/ \E p \in Procs : ClientClose(p)
    \/ \E p \in Procs : ClientForceClose(p)
    \/ \E dc \in DCs : EvictStep(dc)
    \/ \E dc \in DCs : EvictStop(dc)
    \/ ManagerClose
    \/ Tick

(***************************************************************************)
(*        Proxy.ServeConn and the anti-replay filter                       *)
(***************************************************************************)

\* ProxyConfig.HandshakeTimeout's default, seconds.
HandshakeTimeout == 30
\* Connections handed to ServeConn in all, admitted or refused.
MaxSessions == 3
\* ClientHello SessionIDs that clients present, and the cells of the filter.
NumSIDs == 2
SIDs == 1..NumSIDs
NumCells == NumSIDs + 1
Cells == 1..NumCells
\* A DC number no address is known for (203, 999, ...).
UnknownDC == NumDCs + 1

\* What the first record of a connection turns out to be: unreadable, not a ClientHello
\* signed with the secret, a ClientHello for another host or time, or a valid one.
HelloKinds == {"readerr", "parseerr", "invalid", "valid"}
\* How obfuscated2.ServerHandshake on a DC connection ends.
HsOutcomes == {"ok", "epipe", "econnreset", "other"}

Configs == [useConnPool : BOOLEAN, allowFallbackOnUnknownDC : BOOLEAN,
            fallbackOnDialError : BOOLEAN]
DefaultConfig == [useConnPool |-> TRUE, allowFallbackOnUnknownDC |-> FALSE,
                  fallbackOnDialError |-> FALSE]

NoConn == [stage |-> "idle", client |-> "closed", dl |-> FALSE, dc |-> 0, fb |-> FALSE,
           fail |-> "none", fronted |-> FALSE, solo |-> FALSE, first |-> "none",
           sid |-> 0, hs1 |-> "none", retries |-> 0, leased |-> 0, retry |-> 0,
           ev |-> << >>, did |-> {}, warn |-> FALSE, badDC |-> FALSE]

\* The k cells the hash functions give for a SessionID: neighbouring ids share a cell.
CellsOf(sid) == {sid, sid + 1}

\* boom.StableBloomFilter.Test: all k cells are non-zero.
FilterTest(c, sid) == \A k \in CellsOf(sid) : c[k] > 0

\* boom.StableBloomFilter.decrement with P = 1: the cell at a random index loses one.
FilterDecrement(c, r) == [c EXCEPT ![r] = Max(0, @ - 1)]

\* boom.StableBloomFilter.Add's last step: the k cells are set to Max (1 for 1-bit cells).
FilterSet(c, sid) == [k \in Cells |-> IF k \in CellsOf(sid) THEN 1 ELSE c[k]]

\* stableBloomFilterWithMetrics.SeenBefore's result: filter.TestAndAdd tests first.
SeenBeforeNever(c, sid) == FALSE
SeenBefore(c, sid) == FilterTest(c, sid)

\* The filter after SeenBefore: TestAndAdd decrements, then sets, under the mutex.
AfterSeenBefore(c, sid, r) == FilterSet(FilterDecrement(c, r), sid)

ProxyInit ==
    /\ cfg \in Configs
    /\ cn = [p \in Procs |-> NoConn]
    /\ cells = [k \in Cells |-> 0]
    /\ passed = [sid \in SIDs |-> 0]
    /\ hsRun = {}
    /\ started = 0
    /\ hist = << >>

\* The deferred ctx.Close() of ServeConn: the stream context goes away and takes the
\* client socket with it.
StreamClose(c) ==
    [c EXCEPT !.stage = "idle", !.client = "closed", !.dl = FALSE, !.dc = 0, !.fb = FALSE,
              !.sid = 0, !.solo = FALSE, !.first = "none"]

\* Observation of one ServeConn invocation: the work it did, the events it handed to
\* eventStream.Send, and whether it logged at warning level.
Did(c, what) == [c EXCEPT !.did = @ \cup what]
Sent(c, e) == [c EXCEPT !.ev = Append(@, e)]
Warned(c) == [c EXCEPT !.warn = TRUE]

\* ServeConn's deferred functions, run last-in first-out when it returns: the Finish
\* event is sent, then ctx.Close() (proxy.go:93, 110-113).
ServeConnReturn(c) == StreamClose(Sent(c, "Finish"))

\* ServeConn's branch for a connection the rate limiter refuses (proxy.go:78-84): a
\* warning is logged, one ConcurrencyLimited event is sent, the socket is closed.
RateLimitedGoesOn(c) ==
    [c EXCEPT !.stage = "faketls", !.client = "open", !.did = {"ctx"},
              !.ev = <<"ConcurrencyLimited", "Start">>, !.warn = TRUE]
RateLimited(c) ==
    [c EXCEPT !.client = "closed", !.ev = <<"ConcurrencyLimited">>, !.warn = TRUE]

\* ServeConn's test on the error doTelegramCall returned (proxy.go:130-133): the
\* error is logged as a warning unless its text contains "invalid DC".
WarnsOnCallErrorAlways(e) == TRUE
WarnsOnCallError(e) == e # "invalid DC"

\* What the log of ended connections keeps of a connection that was relayed to
\* Telegram; the log keeps nothing of the others.
Summary(c) == [dc |-> c.dc, solo |-> c.solo, first |-> c.first]

\* ServeConn up to the FakeTLS handshake: the rate limiter's verdict, the stream
\* context, the handshake deadline (proxy.go:72-100).
Accept(p) ==
    /\ cn[p].stage = "idle"
    /\ pcall[p].op # "put"
    /\ started < MaxSessions
    /\ \E allowed \in BOOLEAN :
          IF ~allowed
          THEN /\ cn' = [cn EXCEPT ![p] = RateLimited(NoConn)]
               /\ started' = started + 1
          ELSE /\ cn' = [q \in Procs |->
                           IF q = p
                           THEN [NoConn EXCEPT !.stage = "faketls", !.client = "open",
                                               !.dl = (HandshakeTimeout > 0),
                                               !.did = {"ctx"}, !.ev = <<"Start">>,
                                               !.solo = \A o \in Procs \ {p} :
                                                            cn[o].stage = "idle"]
                           ELSE IF cn[q].stage # "idle"
                                THEN [cn[q] EXCEPT !.solo = FALSE]
                                ELSE cn[q]]
               /\ started' = started + 1
    /\ pcall' = [pcall EXCEPT ![p] = NoCall]
    /\ lease' = [lease EXCEPT ![p] = NoLease]
    /\ handout' = [handout EXCEPT ![p] = "none"]
    /\ UNCHANGED <<sock, conns, pools, mClosed, pClosed, stats, now, sw, deadBy>>
    /\ UNCHANGED <<cfg, cells, passed, hsRun, hist>>
    /\ UNCHANGED <<rlVars, extVars>>

\* A failure branch of doFakeTLSHandshake: p.doDomainFronting(ctx, rewind); return false.
FakeTLSFailureCloses(c, why) == [StreamClose(c) EXCEPT !.fail = why]
FakeTLSFailure(c, why) == [c EXCEPT !.stage = "front", !.fail = why]

\* doFakeTLSHandshake (proxy.go:232-282).
FakeTLSHandshake(p) ==
    /\ cn[p].stage = "faketls"
    /\ \E hello \in HelloKinds, sid \in SIDs, r \in Cells, welcome \in BOOLEAN :
          IF hello # "valid"
          THEN /\ cn' = [cn EXCEPT ![p] = FakeTLSFailure(Did(@, {"read"}), hello)]
               /\ UNCHANGED <<cells, passed, hist>>
          ELSE LET seen == SeenBefore(cells, sid)
                   after == AfterSeenBefore(cells, sid, r)
               IN  /\ cells' = after
                   /\ passed' = [s \in SIDs |->
                         IF s = sid
                         THEN (IF seen THEN passed[s]
                               ELSE IF FilterTest(cells, s) THEN passed[s] + 1 ELSE 1)
                         ELSE (IF FilterTest(after, s) THEN passed[s] ELSE 0)]
                   /\ IF seen
                      THEN /\ cn' = [cn EXCEPT ![p] =
                                      FakeTLSFailure(
                                          Sent(Warned(Did([@ EXCEPT !.sid = sid],
                                                          {"read", "antireplay"})),
                                               "ReplayAttack"), "replay")]
                           /\ UNCHANGED hist
                      ELSE IF welcome
                      THEN /\ cn' = [cn EXCEPT ![p] =
                                      Did([@ EXCEPT !.stage = "obfs2", !.sid = sid],
                                          {"read", "antireplay"})]
                           /\ UNCHANGED hist
                      ELSE /\ cn' = [cn EXCEPT ![p] =
                                      ServeConnReturn(Did([@ EXCEPT !.sid = sid],
                                                          {"read", "antireplay"}))]
                           /\ UNCHANGED hist
    /\ UNCHANGED <<cfg, hsRun, started>>
    /\ UNCHANGED <<rlVars, poolVars, extVars>>

\* doDomainFronting (proxy.go:388-407): dial the fronting host and start the relay.
DomainFronting(p) ==
    /\ cn[p].stage = "front"
    /\ \E ok \in BOOLEAN :
          IF ok
          THEN /\ cn' = [cn EXCEPT ![p] =
                          Sent([@ EXCEPT !.stage = "relay_front", !.fronted = TRUE,
                                         !.sid = 0], "DomainFronting")]
               /\ UNCHANGED hist
          ELSE /\ cn' = [cn EXCEPT ![p] =
                          [ServeConnReturn(Warned(Sent(@, "DomainFronting")))
                              EXCEPT !.fronted = TRUE]]
               /\ UNCHANGED hist
    /\ UNCHANGED <<cfg, cells, passed, hsRun, started>>
    /\ UNCHANGED <<rlVars, poolVars, extVars>>

\* addressPool.isValidDC.
IsKnownDC(dc) == dc \in DCs

\* isBrokenPipeError on the error ServerHandshake returned.
isBrokenPipeErrorAny(h) == TRUE
isBrokenPipeError(h) == h \in {"epipe", "econnreset"}

\* Close on a connection that is not a lease wrapper: the socket is closed.
RawClose(p) ==
    /\ sock' = CloseSock(sock, lease[p].sock)
    /\ deadBy' = [deadBy EXCEPT ![lease[p].sock] = "close"]
    /\ lease' = [lease EXCEPT ![p].closed = TRUE]
    /\ UNCHANGED <<stats, pcall>>

\* Close on whatever the pipeline holds as its DC connection.
ConnClose(p) == IF lease[p].kind = "pooled" THEN PooledClose(p) ELSE RawClose(p)

\* PooledConn.Unwrap: the wrapper is consumed and the pipeline holds the connection
\* itself from here on.
Unwrap(l) == [l EXCEPT !.kind = "raw"]

\* Telegram.dialDirect for goroutine p.
DialDirectStep(p, dc) ==
    \E ok \in BOOLEAN :
        /\ ok => FreeSocks # {}
        /\ IF ok
           THEN /\ sock' = [sock EXCEPT ![NextSock] = NewPooledConn(dc, now, "direct")]
                /\ lease' = [lease EXCEPT ![p] =
                       [kind |-> "raw", sock |-> NextSock, closed |-> FALSE, released |-> 0]]
                /\ pcall' = [pcall EXCEPT ![p] = [op |-> "ok", dc |-> dc]]
                /\ handout' = [handout EXCEPT ![p] = "direct"]
           ELSE /\ pcall' = [pcall EXCEPT ![p] = [op |-> "err", dc |-> dc]]
                /\ lease' = [lease EXCEPT ![p] = NoLease]
                /\ handout' = [handout EXCEPT ![p] = "none"]
                /\ UNCHANGED sock

\* Telegram.Dial for goroutine p: the pool's Get begins (ConnectionPoolManager.Get's
\* closed check), or a direct dial when pooling is off.
StartDial(p, dc) ==
    IF cfg.useConnPool
    THEN /\ pcall' = [pcall EXCEPT ![p] = IF mClosed THEN [op |-> "err", dc |-> dc]
                                          ELSE [op |-> "getpool", dc |-> dc]]
         /\ lease' = [lease EXCEPT ![p] = NoLease]
         /\ handout' = [handout EXCEPT ![p] = "none"]
         /\ UNCHANGED sock
    ELSE DialDirectStep(p, dc)

\* doObfuscated2Handshake, the clearing of the deadline, and doTelegramCall up to its
\* call of Dial (proxy.go:119-318).
Obfuscated2Handshake(p) ==
    /\ cn[p].stage = "obfs2"
    /\ \E ok \in BOOLEAN, dc \in DCs \cup {UnknownDC}, fbdc \in DCs :
          IF ~ok
          THEN /\ cn' = [cn EXCEPT ![p] = ServeConnReturn(@)]
               /\ UNCHANGED hist
               /\ UNCHANGED <<sock, pcall, lease, handout>>
          ELSE IF ~IsKnownDC(dc) /\ ~cfg.allowFallbackOnUnknownDC
          THEN /\ cn' = [cn EXCEPT ![p] =
                          ServeConnReturn(
                              [(IF WarnsOnCallError("invalid DC") THEN Warned(@) ELSE @)
                                  EXCEPT !.badDC = dc \notin DCs])]
               /\ UNCHANGED hist
               /\ UNCHANGED <<sock, pcall, lease, handout>>
          ELSE LET target == IF IsKnownDC(dc) THEN dc ELSE fbdc
               IN  /\ cn' = [cn EXCEPT ![p].stage = "dialing", ![p].dl = FALSE,
                                       ![p].dc = target, ![p].sid = 0,
                                       ![p].badDC = dc \notin DCs /\
                                                    ~cfg.allowFallbackOnUnknownDC,
                                       ![p].warn = @ \/ ~IsKnownDC(dc)]
                   /\ StartDial(p, target)
                   /\ UNCHANGED hist
    /\ UNCHANGED <<conns, pools, mClosed, pClosed, stats, now, sw, deadBy>>
    /\ UNCHANGED <<cfg, cells, passed, hsRun, started>>
    /\ UNCHANGED <<rlVars, extVars>>

\* doTelegramCall when Dial returned an error (proxy.go:319-335).
DialFailed(p) ==
    /\ cn[p].stage = "dialing"
    /\ pcall[p].op = "err"
    /\ IF cfg.fallbackOnDialError /\ ~cn[p].fb
       THEN \E d \in (IF DCs \ {cn[p].dc} = {} THEN DCs ELSE DCs \ {cn[p].dc}) :
               /\ cn' = [cn EXCEPT ![p].fb = TRUE, ![p].dc = d, ![p].warn = TRUE,
                                   ![p].first = IF @ = "none" THEN "err" ELSE @]
               /\ StartDial(p, d)
               /\ UNCHANGED hist
       ELSE /\ cn' = [cn EXCEPT ![p] =
                       ServeConnReturn(IF WarnsOnCallError("dial") THEN Warned(@) ELSE @)]
            /\ UNCHANGED hist
            /\ UNCHANGED <<sock, pcall, lease, handout>>
    /\ UNCHANGED <<conns, pools, mClosed, pClosed, stats, now, sw, deadBy>>
    /\ UNCHANGED <<cfg, cells, passed, hsRun, started>>
    /\ UNCHANGED <<rlVars, extVars>>

\* The failure branch of the first ServerHandshake (proxy.go:339-344): a lease wrapper
\* is force-closed, any other connection is closed.
HandshakeFailCloseReturns(p) == ConnClose(p)
HandshakeFailClose(p) ==
    IF lease[p].kind = "pooled" THEN PooledForceClose(p) ELSE RawClose(p)

\* doTelegramCall's step after a successful handshake (proxy.go:369-371): a lease
\* wrapper is replaced by the connection it wraps.
AfterHandshakeKeepsLease(l) == l
AfterHandshake(l) == IF l.kind = "pooled" THEN Unwrap(l) ELSE l

\* doTelegramCall from the first ServerHandshake to the decision about a retry, and
\* on success to the end of doTelegramCall (proxy.go:337-346, 362-386).
ServerHandshake(p) ==
    /\ cn[p].stage = "dialing"
    /\ pcall[p].op = "ok"
    /\ LET s == lease[p].sock
           first == IF cn[p].first = "none" THEN handout[p] ELSE cn[p].first
       IN  \E h \in HsOutcomes :
              /\ hsRun' = hsRun \cup {s}
              /\ IF h = "ok"
                 THEN /\ lease' = [lease EXCEPT ![p] = AfterHandshake(@)]
                      /\ cn' = [cn EXCEPT ![p].stage = "relay", ![p].hs1 = h,
                                          ![p].leased = s, ![p].first = first]
                      /\ UNCHANGED <<sock, stats, pcall, deadBy, hist>>
                 ELSE /\ HandshakeFailClose(p)
                      /\ IF isBrokenPipeError(h)
                         THEN /\ cn' = [cn EXCEPT ![p].stage = "retry", ![p].hs1 = h,
                                                  ![p].leased = s, ![p].first = first]
                              /\ UNCHANGED hist
                         ELSE /\ cn' = [cn EXCEPT ![p] =
                                    [ServeConnReturn(
                                         IF WarnsOnCallError("handshake")
                                         THEN Warned(@) ELSE @)
                                       EXCEPT !.hs1 = h, !.leased = s, !.first = first]]
                              /\ UNCHANGED hist
    /\ UNCHANGED <<conns, pools, mClosed, pClosed, now, sw, handout>>
    /\ UNCHANGED <<cfg, cells, passed, started>>
    /\ UNCHANGED <<rlVars, extVars>>

\* The retry: DialDirect and the second ServerHandshake (proxy.go:347-360).
Retry(p) ==
    /\ cn[p].stage = "retry"
    /\ \E dialed \in BOOLEAN, h2 \in BOOLEAN :
          /\ dialed => FreeSocks # {}
          /\ IF ~dialed
             THEN /\ cn' = [cn EXCEPT ![p] =
                             [ServeConnReturn(IF WarnsOnCallError("dial")
                                              THEN Warned(@) ELSE @)
                                EXCEPT !.retries = @ + 1]]
                  /\ UNCHANGED hist
                  /\ UNCHANGED <<sock, lease, deadBy, hsRun>>
             ELSE LET r == NextSock
                      c == NewPooledConn(cn[p].dc, now, "direct")
                  IN  /\ sock' = [sock EXCEPT ![r] =
                                     IF h2 THEN c ELSE [c EXCEPT !.st = "closed"]]
                      /\ deadBy' = [deadBy EXCEPT ![r] = IF h2 THEN @ ELSE "close"]
                      /\ lease' = [lease EXCEPT ![p] =
                             [kind |-> "raw", sock |-> r, closed |-> ~h2, released |-> 0]]
                      /\ hsRun' = hsRun \cup {r}
                      /\ IF h2
                         THEN /\ cn' = [cn EXCEPT ![p].stage = "relay",
                                                  ![p].retries = @ + 1, ![p].retry = r]
                              /\ UNCHANGED hist
                         ELSE /\ cn' = [cn EXCEPT ![p] =
                                    [ServeConnReturn(
                                         IF WarnsOnCallError("handshake")
                                         THEN Warned(@) ELSE @)
                                       EXCEPT !.retries = @ + 1, !.retry = r]]
                              /\ UNCHANGED hist
    /\ UNCHANGED <<conns, pools, mClosed, pClosed, stats, now, pcall, sw, handout>>
    /\ UNCHANGED <<cfg, cells, passed, started>>
    /\ UNCHANGED <<rlVars, extVars>>

\* relay.Relay returns: its deferred Close of both connections, then ServeConn's exit.
RelayEnd(p) ==
    /\ cn[p].stage \in {"relay", "relay_front"}
    /\ cn' = [cn EXCEPT ![p] = ServeConnReturn(@)]
    /\ IF cn[p].stage = "relay"
       THEN /\ ConnClose(p)
            /\ hist' = Append(hist, Summary(cn[p]))
       ELSE /\ UNCHANGED hist
            /\ UNCHANGED <<sock, stats, pcall, lease, deadBy>>
    /\ UNCHANGED <<conns, pools, mClosed, pClosed, now, sw, handout>>
    /\ UNCHANGED <<cfg, cells, passed, hsRun, started>>
    /\ UNCHANGED <<rlVars, extVars>>

ProxyNext ==
    \/ \E p \in Procs : Accept(p)
    \/ \E p \in Procs : FakeTLSHandshake(p)
    \/ \E p \in Procs : DomainFronting(p)
    \/ \E p \in Procs : Obfuscated2Handshake(p)
    \/ \E p \in Procs : PoolStep(p)
    \/ \E p \in Procs : DialFailed(p)
    \/ \E p \in Procs : ServerHandshake(p)
    \/ \E p \in Procs : Retry(p)
    \/ \E p \in Procs : RelayEnd(p)

(***************************************************************************)
(*                EventStream (events/event_stream.go)                     *)
(***************************************************************************)

\* len(e.chans): runtime.NumCPU() shards.
NumShards == 2
Shards == 0..(NumShards - 1)
\* The buffer of each shard's channel (64 in NewEventStream).
ShardCap == 1
\* Goroutines calling Send, stream ids in use, Send calls in all.
NumSenders == 2
Senders == 1..NumSenders
NumStreams == 2
Streams == 1..NumStreams
MaxEvents == 3

\* The event types sent: NewEventIPBlocklisted (like NewEventConcurrencyLimited) leaves
\* the stream id empty (0 here); Traffic and Finish (like Start and ReplayAttack) carry
\* the stream id of their connection. Send tells Traffic from all the others only.
StreamKinds == {"Traffic", "Finish"}
BareKinds == {"IPBlocklisted"}

NoEvent == [id |-> 0, kind |-> "none", stream |-> 0]
NoSend == [pc |-> "idle", evt |-> NoEvent, shard |-> 0]

\* xxhash.ChecksumString32 of a stream id: a fixed unsigned value for each id (16 bits
\* wide here).
Checksum32(stream) == (40503 * stream) % 65536

\* Send lines 37-46: the shard of an event. int is 64 bits wide, so int(chanNo) is
\* chanNo itself.
ShardForRandom(stream, r) == r % NumShards
ShardFor(stream, r) ==
    IF stream # 0 THEN Checksum32(stream) % NumShards ELSE r % NumShards

\* The cases of Send's select that can proceed: the sender's context is done, the
\* stream's context is done, the channel has room.
ReadyCases(p) ==
    (IF sctx[p] THEN {"ctx"} ELSE {}) \cup
    (IF esDone THEN {"ectx"} ELSE {}) \cup
    (IF Len(chans[snd[p].shard]) < ShardCap THEN {"send"} ELSE {})

EventsInit ==
    /\ chans = [sh \in Shards |-> << >>]
    /\ dropped = 0
    /\ esDone = FALSE
    /\ proc = [sh \in Shards |-> "run"]
    /\ snd = [p \in Senders |-> NoSend]
    /\ sctx = [p \in Senders |-> FALSE]
    /\ nEvents = 0
    /\ got = [sh \in Shards |-> << >>]
    /\ returned = {}
    /\ before = {}
    /\ fullSeen = 0

\* Send up to its select (lines 36-47): the shard is chosen.
SendBegin(p) ==
    /\ snd[p].pc = "idle"
    /\ nEvents < MaxEvents
    /\ \E kind \in StreamKinds \cup BareKinds, stream \in Streams, r \in Shards :
          LET sid == IF kind \in BareKinds THEN 0 ELSE stream
              e == [id |-> nEvents + 1, kind |-> kind, stream |-> sid]
          IN  /\ snd' = [snd EXCEPT ![p] =
                            [pc |-> "select", evt |-> e, shard |-> ShardFor(sid, r)]]
              /\ before' = before \cup {<<d.id, e.id>> : d \in returned}
    /\ nEvents' = nEvents + 1
    /\ UNCHANGED <<chans, dropped, esDone, proc, sctx, got, returned, fullSeen>>
    /\ UNCHANGED notEvVars

\* Send's select (lines 49-73): one of the cases that can proceed is taken, chosen at
\* random; a Traffic event takes the default case when none can; any other event
\* waits until one can.
SendSelect(p) ==
    /\ snd[p].pc = "select"
    /\ LET e == snd[p].evt
           sh == snd[p].shard
       IN  /\ IF ReadyCases(p) # {}
              THEN \E c \in ReadyCases(p) :
                      /\ chans' = IF c = "send"
                                  THEN [chans EXCEPT ![sh] = Append(@, e)] ELSE chans
                      /\ UNCHANGED dropped
              ELSE /\ e.kind = "Traffic"
                   /\ dropped' = dropped + 1
                   /\ UNCHANGED chans
           /\ fullSeen' = IF e.kind = "Traffic" /\ Len(chans[sh]) >= ShardCap
                          THEN fullSeen + 1 ELSE fullSeen
           /\ returned' = returned \cup {e}
    /\ snd' = [snd EXCEPT ![p] = NoSend]
    /\ UNCHANGED <<esDone, proc, sctx, nEvents, got, before>>
    /\ UNCHANGED notEvVars

\* The context a sender passes to Send is cancelled (the stream context of a
\* connection that ends, or the proxy's context at Proxy.Shutdown).
CtxCancel(p) ==
    /\ ~sctx[p]
    /\ sctx' = [sctx EXCEPT ![p] = TRUE]
    /\ UNCHANGED <<chans, dropped, esDone, proc, snd, nEvents, got, returned, before,
                   fullSeen>>
    /\ UNCHANGED notEvVars

\* eventStreamProcessor (lines 120-158): one turn of its loop, either case of the
\* select that can proceed.
Process(sh) ==
    /\ proc[sh] = "run"
    /\ \/ /\ esDone
          /\ proc' = [proc EXCEPT ![sh] = "exit"]
          /\ UNCHANGED <<chans, got>>
       \/ /\ chans[sh] # << >>
          /\ got' = [got EXCEPT ![sh] = Append(@, Head(chans[sh]))]
          /\ chans' = [chans EXCEPT ![sh] = Tail(@)]
          /\ UNCHANGED proc
    /\ UNCHANGED <<dropped, esDone, snd, sctx, nEvents, returned, before, fullSeen>>
    /\ UNCHANGED notEvVars

\* EventStream.Shutdown (lines 83-85).
EventsShutdown ==
    /\ ~esDone
    /\ esDone' = TRUE
    /\ UNCHANGED <<chans, dropped, proc, snd, sctx, nEvents, got, returned, before,
                   fullSeen>>
    /\ UNCHANGED notEvVars

EventsNext ==
    \/ \E p \in Senders : SendBegin(p)
    \/ \E p \in Senders : SendSelect(p)
    \/ \E p \in Senders : CtxCancel(p)
    \/ \E sh \in Shards : Process(sh)
    \/ EventsShutdown

(***************************************************************************)
(*                 relay.Relay (mtglib/internal/relay/relay.go)            *)
(***************************************************************************)

\* The chunks each peer sends in all.
MaxChunks == 2

\* The two connections of a relay and the two pumps: the goroutine's pump reads
\* telegramConn and writes clientConn, the pump on Relay's own goroutine the reverse.
Ends == {"telegram", "client"}
Dirs == {"t2c", "c2t"}
Src(d) == IF d = "t2c" THEN "telegram" ELSE "client"
Dst(d) == IF d = "t2c" THEN "client" ELSE "telegram"
Other(d) == IF d = "t2c" THEN "c2t" ELSE "t2c"

\* The direction and the log label Relay starts the pump d with: the pump whose src
\* is telegramConn is started with "client -> telegram" and dirUpload, the pump whose
\* src is clientConn with "telegram -> client" and dirDownload.
PumpDir(d) == IF Src(d) = "telegram" THEN "dirUpload" ELSE "dirDownload"
PumpLabel(d) == IF Src(d) = "telegram" THEN "client -> telegram" ELSE "telegram -> client"

\* pump applies PriorityHints.ApplyHighPriority and the low-latency socket options
\* when it is started with dirDownload.
HighPriority(d) == PumpDir(d) = "dirDownload"

\* A connection as Relay receives it: rd and wr are the local halves, closed is the
\* full Close, inbox counts the chunks received and not yet read, sent the chunks the
\* peer has sent, fin that the peer has closed its sending side, rst a transport error.
OpenConn == [rd |-> "open", wr |-> "open", closed |-> FALSE, inbox |-> 0, sent |-> 0,
             fin |-> FALSE, rst |-> FALSE]

\* essentials.Conn.CloseWrite, CloseRead and Close on one connection.
CloseWrite(c) == [c EXCEPT !.wr = "shut"]
CloseRead(c) == [c EXCEPT !.rd = "shut"]
FullClose(c) == [c EXCEPT !.rd = "shut", !.wr = "shut", !.closed = TRUE]

\* pump's deferred calls (lines 78-79): dst.CloseWrite(), then src.CloseRead().
PumpDefersCloseBoth(cs, d) ==
    [cs EXCEPT ![Dst(d)] = FullClose(@), ![Src(d)] = FullClose(@)]
PumpDefers(cs, d) ==
    [cs EXCEPT ![Dst(d)] = CloseWrite(@), ![Src(d)] = CloseRead(@)]

\* The goroutine that waits for the context (lines 35-41): what it does to a connection.
OnCancel(c) == CloseWrite(c)

RelayInit ==
    /\ rconn = [e \in Ends |-> OpenConn]
    /\ pump = [d \in Dirs |-> [pc |-> "read", n |-> 0, late |-> FALSE]]
    /\ rctx = FALSE
    /\ cg = "wait"
    /\ rret = FALSE

\* The peer of a connection sends a chunk, closes its sending side, or the transport
\* fails (reset, TCP_USER_TIMEOUT).
PeerSend(e) ==
    /\ ~rconn[e].fin /\ ~rconn[e].rst /\ ~rconn[e].closed
    /\ rconn[e].sent < MaxChunks
    /\ rconn' = [rconn EXCEPT ![e].inbox = @ + 1, ![e].sent = @ + 1]
    /\ UNCHANGED <<pump, rctx, cg, rret>>
    /\ UNCHANGED notRelayVars

PeerFin(e) ==
    /\ ~rconn[e].fin /\ ~rconn[e].rst /\ ~rconn[e].closed
    /\ rconn' = [rconn EXCEPT ![e].fin = TRUE]
    /\ UNCHANGED <<pump, rctx, cg, rret>>
    /\ UNCHANGED notRelayVars

PeerReset(e) ==
    /\ ~rconn[e].rst /\ ~rconn[e].closed
    /\ rconn' = [rconn EXCEPT ![e].rst = TRUE]
    /\ UNCHANGED <<pump, rctx, cg, rret>>
    /\ UNCHANGED notRelayVars

\* Whether a Read on connection c returns now, and with what: a closed connection, a
\* shut reading half and a transport error end the copy, a chunk is data, a peer's FIN
\* with nothing left to read is EOF; otherwise the Read waits.
ReadResult(c) ==
    IF c.closed \/ c.rst THEN "err"
    ELSE IF c.inbox > 0 THEN "data"
    ELSE IF c.fin \/ c.rd = "shut" THEN "eof"
    ELSE "wait"

\* Whether a Write on connection c succeeds.
WriteOK(c) == ~c.closed /\ ~c.rst /\ c.wr = "open"

\* pump (lines 77-115): one Read of the copy loop; on EOF or error the pump returns
\* and runs its deferred calls.
PumpRead(d) ==
    /\ pump[d].pc = "read"
    /\ ReadResult(rconn[Src(d)]) # "wait"
    /\ IF ReadResult(rconn[Src(d)]) = "data"
       THEN /\ rconn' = [rconn EXCEPT ![Src(d)].inbox = @ - 1]
            /\ pump' = [pump EXCEPT ![d].pc = "write"]
       ELSE /\ rconn' = PumpDefers(rconn, d)
            /\ pump' = [pump EXCEPT ![d].pc = "exited"]
    /\ UNCHANGED <<rctx, cg, rret>>
    /\ UNCHANGED notRelayVars

\* pump: one Write of the copy loop; on an error the pump returns and runs its
\* deferred calls.
PumpWrite(d) ==
    /\ pump[d].pc = "write"
    /\ IF WriteOK(rconn[Dst(d)])
       THEN /\ pump' = [pump EXCEPT ![d].pc = "read", ![d].n = @ + 1,
                                    ![d].late = @ \/ pump[Other(d)].pc = "exited"]
            /\ UNCHANGED rconn
       ELSE /\ rconn' = PumpDefers(rconn, d)
            /\ pump' = [pump EXCEPT ![d].pc = "exited"]
    /\ UNCHANGED <<rctx, cg, rret>>
    /\ UNCHANGED notRelayVars

\* The context given to Relay is cancelled.
RelayCancel ==
    /\ ~rctx /\ ~rret
    /\ rctx' = TRUE
    /\ UNCHANGED <<rconn, pump, cg, rret>>
    /\ UNCHANGED notRelayVars

\* The goroutine that waits for the context (lines 35-41): telegramConn first, then
\* clientConn.
CancelStep ==
    /\ rctx
    /\ cg \in {"wait", "client"}
    /\ IF cg = "wait"
       THEN /\ rconn' = [rconn EXCEPT !["telegram"] = OnCancel(@)]
            /\ cg' = "client"
       ELSE /\ rconn' = [rconn EXCEPT !["client"] = OnCancel(@)]
            /\ cg' = "done"
    /\ UNCHANGED <<pump, rctx, rret>>
    /\ UNCHANGED notRelayVars

\* Relay's end (lines 72-74 and the deferred calls of lines 27-31): its own pump has
\* returned, closeChan is closed by the goroutine of the other pump; then cancel(),
\* clientConn.Close(), telegramConn.Close().
RelayReturn ==
    /\ ~rret
    /\ pump["c2t"].pc = "exited"
    /\ pump["t2c"].pc = "exited"
    /\ rret' = TRUE
    /\ rctx' = TRUE
    /\ rconn' = [e \in Ends |-> FullClose(rconn[e])]
    /\ UNCHANGED <<pump, cg>>
    /\ UNCHANGED notRelayVars

\* The steps of the program, and those of the peers.
RelayProgram ==
    \/ \E d \in Dirs : PumpRead(d)
    \/ \E d \in Dirs : PumpWrite(d)
    \/ CancelStep
    \/ RelayReturn

RelayNext ==
    \/ \E e \in Ends : PeerSend(e)
    \/ \E e \in Ends : PeerFin(e)
    \/ \E e \in Ends : PeerReset(e)
    \/ \E d \in Dirs : PumpRead(d)
    \/ \E d \in Dirs : PumpWrite(d)
    \/ RelayCancel
    \/ CancelStep
    \/ RelayReturn

(***************************************************************************)
(*          Proxy.Serve, the worker pool and Proxy.Shutdown                *)
(***************************************************************************)

\* The size of the ants worker pool (opts.getConcurrency()), and the connections the
\* listener hands out in all.
NumWorkers == 2
Workers == 1..NumWorkers
MaxAccepts == 3

ShutdownInit ==
    /\ wg = 0
    /\ srv = "off"
    /\ lst = "open"
    /\ pctx = FALSE
    /\ worker = [w \in Workers |-> "idle"]
    /\ accepted = 0
    /\ sd = "off"
    /\ stopped = {}

\* Serve is called (lines 147-149): streamWaitGroup.Add(1).
ServeStart ==
    /\ srv = "off"
    /\ sd = "off"
    /\ srv' = "accept"
    /\ wg' = wg + 1
    /\ UNCHANGED <<lst, pctx, worker, accepted, sd, stopped>>
    /\ UNCHANGED notSdVars

\* The owner of the listener closes it.
ListenerClose ==
    /\ lst = "open"
    /\ lst' = "closed"
    /\ UNCHANGED <<wg, srv, pctx, worker, accepted, sd, stopped>>
    /\ UNCHANGED notSdVars

\* workerPool.Invoke in non-blocking mode: ErrPoolClosed after Release, ErrPoolOverload
\* when no worker is free, otherwise the connection is handed to a free worker.
Invoke(ws, closed) ==
    IF closed THEN "closed"
    ELSE IF \A w \in Workers : ws[w] # "idle" THEN "overload"
    ELSE "ok"

\* One turn of Serve's loop (lines 151-194): Accept, the allowlist and blocklist, Invoke.
\* When Accept fails Serve returns, and so it does on ErrPoolClosed; the deferred Done
\* runs.
ServeLoop ==
    /\ srv = "accept"
    /\ IF lst = "closed"
       THEN /\ srv' = "done"
            /\ wg' = wg - 1
            /\ UNCHANGED <<worker, accepted>>
       ELSE /\ accepted < MaxAccepts
            /\ accepted' = accepted + 1
            /\ \E listed \in BOOLEAN :
                  IF listed
                  THEN UNCHANGED <<srv, wg, worker>>
                  ELSE CASE Invoke(worker, "pool" \in stopped) = "closed" ->
                                /\ srv' = "done"
                                /\ wg' = wg - 1
                                /\ UNCHANGED worker
                         [] Invoke(worker, "pool" \in stopped) = "overload" ->
                                UNCHANGED <<srv, wg, worker>>
                         [] OTHER ->
                                /\ \E w \in Workers :
                                      /\ worker[w] = "idle"
                                      /\ worker' = [worker EXCEPT ![w] = "handed"]
                                /\ UNCHANGED <<srv, wg>>
    /\ UNCHANGED <<lst, pctx, sd, stopped>>
    /\ UNCHANGED notSdVars

\* The worker goroutine calls ServeConn for the connection it was handed (lines 72-74):
\* streamWaitGroup.Add(1).
ServeConnBegin(w) ==
    /\ worker[w] = "handed"
    /\ worker' = [worker EXCEPT ![w] = "serving"]
    /\ wg' = wg + 1
    /\ UNCHANGED <<srv, lst, pctx, accepted, sd, stopped>>
    /\ UNCHANGED notSdVars

\* ServeConn returns: the deferred streamWaitGroup.Done().
ServeConnEnd(w) ==
    /\ worker[w] = "serving"
    /\ worker' = [worker EXCEPT ![w] = "idle"]
    /\ wg' = wg - 1
    /\ UNCHANGED <<srv, lst, pctx, accepted, sd, stopped>>
    /\ UNCHANGED notSdVars

\* streamWaitGroup.Wait() returns when the counter is zero.
WaitReturns(n) == n = 0

\* Shutdown (lines 199-214), one call at a time in program order: ctxCancel, Wait,
\* workerPool.Release, the allowlist and blocklist, rateLimiter.Stop, telegram.Close.
ShutdownStep ==
    /\ sd # "returned"
    /\ CASE sd = "off" ->
                /\ pctx' = TRUE
                /\ sd' = "wait"
                /\ UNCHANGED stopped
         [] sd = "wait" ->
                /\ WaitReturns(wg)
                /\ sd' = "release"
                /\ UNCHANGED <<pctx, stopped>>
         [] sd = "release" ->
                /\ stopped' = stopped \cup {"pool"}
                /\ sd' = "stop"
                /\ UNCHANGED pctx
         [] sd = "stop" ->
                /\ stopped' = stopped \cup {"limiter"}
                /\ sd' = "close"
                /\ UNCHANGED pctx
         [] OTHER ->
                /\ stopped' = stopped \cup {"dcpools"}
                /\ sd' = "returned"
                /\ UNCHANGED pctx
    /\ UNCHANGED <<wg, srv, lst, worker, accepted>>
    /\ UNCHANGED notSdVars

ShutdownNext ==
    \/ ServeStart
    \/ ListenerClose
    \/ ServeLoop
    \/ \E w \in Workers : ServeConnBegin(w)
    \/ \E w \in Workers : ServeConnEnd(w)
    \/ ShutdownStep

(***************************************************************************)
(*                    connRewind (mtglib/conns.go)                         *)
(***************************************************************************)

\* The byte values a client sends, the length of its stream, the size of the buffer
\* given to one Read.
NumBytes == 2
Bytes == 1..NumBytes
MaxStream == 4
MaxRead == 2

\* All byte streams of up to n bytes.
StreamsUpTo(n) == UNION {[1..k -> Bytes] : k \in 0..n}

\* The first n elements of a sequence, and what follows them.
Take(q, n) == SubSeq(q, 1, Min(n, Len(q)))
Drop(q, n) == SubSeq(q, Min(n, Len(q)) + 1, Len(q))

\* io.TeeReader's Write to c.buf of the bytes a Read returned.
TeeDrops(buf, data) == buf
Tee(buf, data) == buf \o data

RewindInit ==
    /\ rwStream = << >>
    /\ rwPos = 0
    /\ rwBuf = << >>
    /\ rwActive = "none"
    /\ rwPre = << >>
    /\ rwOut = << >>

\* newConnRewind (lines 113-121) on a connection whose client sends the stream s.
NewConnRewind ==
    /\ rwActive = "none"
    /\ \E s \in StreamsUpTo(MaxStream) : rwStream' = s
    /\ rwActive' = "tee"
    /\ UNCHANGED <<rwPos, rwBuf, rwPre, rwOut>>
    /\ UNCHANGED notRwVars

\* connRewind.Read (lines 102-106) with a buffer of n bytes of which the connection
\* fills k. Before Rewind the active reader is TeeReader(conn, buf); after it,
\* MultiReader(buf, conn): c.buf until it is empty, then the connection.
RewindRead ==
    /\ rwActive \in {"tee", "multi"}
    /\ \E n \in 1..MaxRead, k \in 1..MaxRead :
          /\ k <= n
          /\ IF rwActive = "tee"
             THEN LET data == Take(Drop(rwStream, rwPos), k)
                  IN  /\ data # << >>
                      /\ rwPos' = rwPos + Len(data)
                      /\ rwBuf' = Tee(rwBuf, data)
                      /\ rwPre' = rwPre \o data
                      /\ UNCHANGED rwOut
             ELSE IF rwBuf # << >>
             THEN /\ rwOut' = rwOut \o Take(rwBuf, n)
                  /\ rwBuf' = Drop(rwBuf, n)
                  /\ UNCHANGED <<rwPos, rwPre>>
             ELSE LET data == Take(Drop(rwStream, rwPos), k)
                  IN  /\ data # << >>
                      /\ rwPos' = rwPos + Len(data)
                      /\ rwOut' = rwOut \o data
                      /\ UNCHANGED <<rwBuf, rwPre>>
    /\ UNCHANGED <<rwStream, rwActive>>
    /\ UNCHANGED notRwVars

\* connRewind.Rewind (lines 108-111).
Rewind ==
    /\ rwActive \in {"tee", "multi"}
    /\ rwActive' = "multi"
    /\ UNCHANGED <<rwStream, rwPos, rwBuf, rwPre, rwOut>>
    /\ UNCHANGED notRwVars

RewindNext ==
    \/ NewConnRewind
    \/ RewindRead
    \/ Rewind

(***************************************************************************)
(*   faketls.Conn: the record layer (mtglib/internal/faketls/conn.go)      *)
(***************************************************************************)

\* record.TLSMaxWriteRecordSize, scaled down from 16384.
TLSMaxWriteRecordSize == 2
\* Bytes given to Write in all.
MaxTLSBytes == 5
\* Records the peer writes on the connection itself.
MaxInject == 2
\* The largest buffer a Read is called with.
MaxReadBuf == 3

\* The record types and the version of the wire format.
TypeChangeCipherSpec == 20
TypeHandshake == 22
TypeApplicationData == 23
Version12 == 771

\* The byte values Write is given: they are also type codes, so that a payload byte
\* taken for a header shows.
TLSBytes == {TypeChangeCipherSpec, TypeApplicationData}

\* The arguments of a Write: every byte string of up to n bytes.
TLSPayloads(n) == UNION {[1..k -> TLSBytes] : k \in 0..n}

NoWrite == [n |-> 0, out |-> << >>]
NoRead == [first |-> 0, skipped |-> 0, k |-> 0, n |-> 0, err |-> "none"]

\* Record.Dump: the 5-byte header (type, version, big-endian length), then the payload.
Dump(type, payload) ==
    <<type, Version12 \div 256, Version12 % 256,
      Len(payload) \div 256, Len(payload) % 256>> \o payload

\* Record.Read on the bytes w: the record at the front and the bytes after it; not ok
\* when w does not hold a whole record.
RecordRead(w) ==
    IF Len(w) < 5 \/ Len(w) < 5 + w[4] * 256 + w[5]
    THEN [ok |-> FALSE, type |-> 0, version |-> 0, payload |-> << >>, rest |-> w]
    ELSE LET n == w[4] * 256 + w[5]
         IN  [ok |-> TRUE, type |-> w[1], version |-> w[2] * 256 + w[3],
              payload |-> SubSeq(w, 6, 5 + n), rest |-> SubSeq(w, 6 + n, Len(w))]

\* chunkSize in the loop of Conn.Write, n bytes being left to write.
ChunkSizeOne(n) == 1
ChunkSize(n) == Min(TLSMaxWriteRecordSize, n)

\* The loop of Conn.Write: what it puts into sendBuffer for the argument p.
RECURSIVE WriteRecords(_)
WriteRecords(p) ==
    IF Len(p) = 0 THEN << >>
    ELSE Dump(TypeApplicationData, Take(p, ChunkSize(Len(p))))
            \o WriteRecords(Drop(p, ChunkSize(Len(p))))

\* The switch of Conn.Read on the type of a record.
RecordActionLenient(type) ==
    IF type = TypeChangeCipherSpec THEN "skip" ELSE "deliver"
RecordAction(type) ==
    CASE type = TypeApplicationData -> "deliver"
      [] type = TypeChangeCipherSpec -> "skip"
      [] OTHER -> "fail"

\* The loop of Conn.Read on the bytes w of the connection, `skipped` records passed
\* over so far and `first` the type of the first record taken: it ends with a record
\* to deliver, with an unsupported record, or waiting in rec.Read for more bytes.
RECURSIVE ReadLoop(_, _, _)
ReadLoop(w, skipped, first) ==
    LET r == RecordRead(w)
        f == IF first = 0 THEN r.type ELSE first
    IN  IF ~r.ok
        THEN [end |-> "wait", payload |-> << >>, wire |-> w, skipped |-> skipped,
              first |-> first]
        ELSE CASE RecordAction(r.type) = "deliver" ->
                    [end |-> "deliver", payload |-> r.payload, wire |-> r.rest,
                     skipped |-> skipped, first |-> f]
               [] RecordAction(r.type) = "skip" -> ReadLoop(r.rest, skipped + 1, f)
               [] OTHER ->
                    [end |-> "fail", payload |-> << >>, wire |-> r.rest,
                     skipped |-> skipped, first |-> f]

\* bytes.Buffer.Read into a buffer of k bytes: what it returns and what it keeps.
BufferReadDiscards(b, k) == [out |-> Take(b, k), rest |-> << >>]
BufferRead(b, k) == [out |-> Take(b, k), rest |-> Drop(b, k)]

TLSInit ==
    /\ tlsWire = << >>
    /\ readBuffer = << >>
    /\ tlsSent = << >>
    /\ tlsGot = << >>
    /\ lastWrite = NoWrite
    /\ lastRead = NoRead
    /\ nInject = 0

\* Conn.Write(p): the records of p in one Write on the connection.
TLSWrite ==
    \E p \in TLSPayloads(MaxTLSBytes - Len(tlsSent)) :
        /\ tlsWire' = tlsWire \o WriteRecords(p)
        /\ tlsSent' = tlsSent \o p
        /\ lastWrite' = [n |-> Len(p), out |-> WriteRecords(p)]
        /\ UNCHANGED <<readBuffer, tlsGot, lastRead, nInject>>
        /\ UNCHANGED notTlsVars

\* The payload of the records the peer writes itself: 0x01 in a ChangeCipherSpec,
\* one byte in a Handshake record, none in an ApplicationData record.
PeerPayload(type) ==
    CASE type = TypeChangeCipherSpec -> <<1>>
      [] type = TypeHandshake -> <<TypeApplicationData>>
      [] OTHER -> << >>

\* The peer (a client, or an older server) writes a record of its own: a
\* ChangeCipherSpec, a Handshake record, or an ApplicationData record with an empty
\* payload.
PeerRecord(type) ==
    /\ nInject < MaxInject
    /\ nInject' = nInject + 1
    /\ tlsWire' = tlsWire \o Dump(type, PeerPayload(type))
    /\ UNCHANGED <<readBuffer, tlsSent, tlsGot, lastWrite, lastRead>>
    /\ UNCHANGED notTlsVars

\* Conn.Read(p) with len(p) = k.  A Read that waits in rec.Read for more bytes is the
\* same call when it goes on, with the same p.
TLSRead(k) ==
    /\ lastRead.err = "waiting" => k = lastRead.k
    /\ IF Len(readBuffer) > 0
       THEN /\ readBuffer' = BufferRead(readBuffer, k).rest
            /\ tlsGot' = tlsGot \o BufferRead(readBuffer, k).out
            /\ lastRead' = [first |-> 0, skipped |-> 0, k |-> k,
                            n |-> Len(BufferRead(readBuffer, k).out), err |-> "nil"]
            /\ UNCHANGED tlsWire
       ELSE LET r == ReadLoop(tlsWire, 0, 0)
                b == BufferRead(r.payload, k)
            IN  /\ Len(tlsWire) > 0
                /\ tlsWire' = r.wire
                /\ CASE r.end = "deliver" ->
                            /\ readBuffer' = b.rest
                            /\ tlsGot' = tlsGot \o b.out
                            /\ lastRead' = [first |-> r.first, skipped |-> r.skipped,
                                            k |-> k, n |-> Len(b.out),
                                            err |-> IF Len(r.payload) = 0 THEN "EOF"
                                                    ELSE "nil"]
                     [] r.end = "fail" ->
                            /\ lastRead' = [first |-> r.first, skipped |-> r.skipped,
                                            k |-> k, n |-> 0, err |-> "unsupported"]
                            /\ UNCHANGED <<readBuffer, tlsGot>>
                     [] OTHER ->
                            /\ lastRead' = [first |-> r.first, skipped |-> r.skipped,
                                            k |-> k, n |-> 0, err |-> "waiting"]
                            /\ UNCHANGED <<readBuffer, tlsGot>>
    /\ UNCHANGED <<tlsSent, lastWrite, nInject>>
    /\ UNCHANGED notTlsVars

TLSNext ==
    \/ TLSWrite
    \/ \E type \in {TypeChangeCipherSpec, TypeHandshake, TypeApplicationData} :
            PeerRecord(type)
    \/ \E k \in 1..MaxReadBuf : TLSRead(k)

(***************************************************************************)
(*   The address list a DC sub-pool dials (telegram.go, pool.go)           *)
(***************************************************************************)

\* Endpoints in the address book for one DC.
NumAddrs == 2
Addrs == 1..NumAddrs
\* Dials in all.
MaxDials == 3

\* addressPool.get: a copy of the DC's endpoints, shuffled.
AddrLists == {l \in [1..NumAddrs -> Addrs] : \A i, j \in 1..NumAddrs : l[i] = l[j] => i = j}

NoGet == [pc |-> "idle", dc |-> 0, addrs |-> << >>]

\* The list DCPool.dial goes through for a Get that was given the list `given`, on
\* the sub-pool whose addrs field is `own`.
DialList(own, given) == own

\* The loop of DCPool.dial over list l when the endpoints in `up` answer: the first
\* that answers, 0 when none does.
RECURSIVE FirstUp(_, _)
FirstUp(l, up) ==
    IF Len(l) = 0 THEN 0
    ELSE IF Head(l) \in up THEN Head(l) ELSE FirstUp(Tail(l), up)

AddrInit ==
    /\ dcAddrs = [dc \in DCs |-> << >>]
    /\ adCall = [p \in Procs |-> NoGet]
    /\ dialLog = << >>

\* Telegram.Dial(dc) up to connPool.Get: getAddresses makes the list.
AddrGet(p, dc, l) ==
    /\ adCall[p].pc = "idle"
    /\ Len(dialLog) + Cardinality({q \in Procs : adCall[q].pc # "idle"}) < MaxDials
    /\ adCall' = [adCall EXCEPT ![p] = [pc |-> "getpool", dc |-> dc, addrs |-> l]]
    /\ UNCHANGED <<dcAddrs, dialLog>>
    /\ UNCHANGED notAdVars

\* ConnectionPoolManager.GetPool: NewDCPool with the caller's list when the DC has no
\* sub-pool, the existing sub-pool otherwise.
AddrGetPool(p) ==
    /\ adCall[p].pc = "getpool"
    /\ dcAddrs' = IF dcAddrs[adCall[p].dc] = << >>
                  THEN [dcAddrs EXCEPT ![adCall[p].dc] = adCall[p].addrs]
                  ELSE dcAddrs
    /\ adCall' = [adCall EXCEPT ![p].pc = "dial"]
    /\ UNCHANGED dialLog
    /\ UNCHANGED notAdVars

\* DCPool.Get on a miss: DCPool.dial, the endpoints in `up` answering.
AddrDial(p, up) ==
    /\ adCall[p].pc = "dial"
    /\ LET l == DialList(dcAddrs[adCall[p].dc], adCall[p].addrs)
       IN  dialLog' = Append(dialLog, [dc |-> adCall[p].dc, asked |-> adCall[p].addrs,
                                       list |-> l, addr |-> FirstUp(l, up)])
    /\ adCall' = [adCall EXCEPT ![p] = NoGet]
    /\ UNCHANGED dcAddrs
    /\ UNCHANGED notAdVars

AddrNext ==
    \/ \E p \in Procs, dc \in DCs, l \in AddrLists : AddrGet(p, dc, l)
    \/ \E p \in Procs : AddrGetPool(p)
    \/ \E p \in Procs, up \in SUBSET Addrs : AddrDial(p, up)

(***************************************************************************)
(*   cooldownDialer (network package)                                      *)
(***************************************************************************)

\* Callers of DialContext.
NumDialers == 3
Dialers == 1..NumDialers

\* newCooldownDialer's openThreshold and reconnectTimeout, in clock ticks.
OpenThreshold == 2
ReconnectTimeout == 2

\* The clock stops here.
MaxCBTime == 6

\* !c.cooldownUntil.IsZero() && time.Now().Before(c.cooldownUntil)
InCooldownInclusive(until, t) == until # 0 /\ t <= until
InCooldown(until, t) == until # 0 /\ t < until

CBInit ==
    /\ cbFailures = 0
    /\ cbUntil = 0
    /\ cbNow = 1
    /\ cbCall = [p \in Dialers |-> "idle"]
    /\ cbStarted = [p \in Dialers |-> 0]
    /\ cbBegan = 0

\* DialContext up to the call of the underlying dialer: under the mutex, return
\* ErrCircuitBreakerOpened in the cooldown, else unlock and dial.
CBEnter(p) ==
    /\ cbCall[p] # "dialing"
    /\ cbCall' = [cbCall EXCEPT ![p] =
                      IF InCooldown(cbUntil, cbNow) THEN "rejected" ELSE "dialing"]
    /\ cbStarted' = [cbStarted EXCEPT ![p] = cbNow]
    /\ UNCHANGED <<cbFailures, cbUntil, cbNow, cbBegan, notCbVars>>

\* DialContext from the return of the underlying dialer: a context that is done
\* returns its error before any bookkeeping; a success clears the count and the
\* cooldown; a failure counts, and the threshold starts the cooldown.
CBFinish(p, ok, ctxDone) ==
    /\ cbCall[p] = "dialing"
    /\ IF ctxDone
       THEN /\ cbCall' = [cbCall EXCEPT ![p] = "ctx"]
            /\ UNCHANGED <<cbFailures, cbUntil, cbBegan>>
       ELSE IF ok
       THEN /\ cbCall' = [cbCall EXCEPT ![p] = "ok"]
            /\ cbFailures' = 0
            /\ cbUntil' = 0
            /\ UNCHANGED cbBegan
       ELSE /\ cbCall' = [cbCall EXCEPT ![p] = "err"]
            /\ IF cbFailures + 1 >= OpenThreshold
               THEN /\ cbUntil' = cbNow + ReconnectTimeout
                    /\ cbFailures' = 0
                    /\ cbBegan' = cbNow
               ELSE /\ cbFailures' = cbFailures + 1
                    /\ UNCHANGED <<cbUntil, cbBegan>>
    /\ UNCHANGED <<cbStarted, cbNow, notCbVars>>

\* Time passes.
CBTick ==
    /\ cbNow < MaxCBTime
    /\ cbNow' = cbNow + 1
    /\ UNCHANGED <<cbFailures, cbUntil, cbCall, cbStarted, cbBegan, notCbVars>>

CBNext ==
    \/ \E p \in Dialers : CBEnter(p)
    \/ \E p \in Dialers, ok \in BOOLEAN, ctxDone \in BOOLEAN : CBFinish(p, ok, ctxDone)
    \/ CBTick

(***************************************************************************)
(*   connTraffic (mtglib/conns.go)                                         *)
(***************************************************************************)

\* trafficFlushThreshold, in bytes (32 KB in the source).
TrafficFlushThreshold == 3

\* The largest n one Read or Write transfers, and the bytes one direction
\* transfers in all.
MaxChunk == 2
MaxMoved == 5

\* readAcc is the accumulator of Read, writeAcc of Write.
TcDirs == {"read", "write"}

NoTransfer == [pc |-> "idle", n |-> 0, acc |-> 0]

TCInit ==
    /\ tcAcc = [d \in TcDirs |-> 0]
    /\ tcOp = [d \in TcDirs |-> NoTransfer]
    /\ tcFlush = [pc |-> "idle", close |-> FALSE]
    /\ tcClosed = FALSE
    /\ tcMoved = [d \in TcDirs |-> 0]
    /\ tcSent = [d \in TcDirs |-> 0]

\* n, err := c.Conn.Read(b) or c.Conn.Write(b): n > 0 bytes on an open connection;
\* with n = 0 the call returns at once.
TcTransfer(d, n) ==
    /\ tcOp[d].pc = "idle"
    /\ ~tcClosed
    /\ tcMoved[d] + n <= MaxMoved
    /\ tcMoved' = [tcMoved EXCEPT ![d] = @ + n]
    /\ tcOp' = [tcOp EXCEPT ![d] = [pc |-> "add", n |-> n, acc |-> 0]]
    /\ UNCHANGED <<tcAcc, tcFlush, tcClosed, tcSent, notTcVars>>

\* accumulated := acc.Add(uint64(n)), and the comparison with the threshold.
TcAdd(d) ==
    /\ tcOp[d].pc = "add"
    /\ LET accumulated == tcAcc[d] + tcOp[d].n
       IN  /\ tcAcc' = [tcAcc EXCEPT ![d] = accumulated]
           /\ tcOp' = [tcOp EXCEPT ![d] =
                          IF accumulated >= TrafficFlushThreshold
                          THEN [pc |-> "store", n |-> tcOp[d].n, acc |-> accumulated]
                          ELSE NoTransfer]
    /\ UNCHANGED <<tcFlush, tcClosed, tcMoved, tcSent, notTcVars>>

\* acc.Store(0) and the Send of the Traffic event carrying accumulated.
TcStoreSend(d) ==
    /\ tcOp[d].pc = "store"
    /\ tcAcc' = [tcAcc EXCEPT ![d] = 0]
    /\ tcSent' = [tcSent EXCEPT ![d] = @ + tcOp[d].acc]
    /\ tcOp' = [tcOp EXCEPT ![d] = NoTransfer]
    /\ UNCHANGED <<tcFlush, tcClosed, tcMoved, notTcVars>>

\* FlushTraffic, called on its own or by Close: first readAcc.Swap(0) and its
\* event when the value was positive.
TcFlushRead(close) ==
    /\ tcFlush.pc = "idle"
    /\ ~tcClosed
    /\ tcSent' = [tcSent EXCEPT !["read"] = @ + tcAcc["read"]]
    /\ tcAcc' = [tcAcc EXCEPT !["read"] = 0]
    /\ tcFlush' = [pc |-> "write", close |-> close]
    /\ UNCHANGED <<tcOp, tcClosed, tcMoved, notTcVars>>

\* FlushTraffic: writeAcc.Swap(0) and its event when the value was positive.
TcFlushWrite ==
    /\ tcFlush.pc = "write"
    /\ tcSent' = [tcSent EXCEPT !["write"] = @ + tcAcc["write"]]
    /\ tcAcc' = [tcAcc EXCEPT !["write"] = 0]
    /\ tcFlush' = [tcFlush EXCEPT !.pc = IF tcFlush.close THEN "close" ELSE "idle"]
    /\ UNCHANGED <<tcOp, tcClosed, tcMoved, notTcVars>>

\* Close after its FlushTraffic: c.Conn.Close().
TcConnClose ==
    /\ tcFlush.pc = "close"
    /\ tcClosed' = TRUE
    /\ tcFlush' = [pc |-> "idle", close |-> FALSE]
    /\ UNCHANGED <<tcAcc, tcOp, tcMoved, tcSent, notTcVars>>

TCNext ==
    \/ \E d \in TcDirs, n \in 1..MaxChunk : TcTransfer(d, n)
    \/ \E d \in TcDirs : TcAdd(d)
    \/ \E d \in TcDirs : TcStoreSend(d)
    \/ \E close \in BOOLEAN : TcFlushRead(close)
    \/ TcFlushWrite
    \/ TcConnClose

(***************************************************************************)
(*   obfuscated2.Conn (mtglib/internal/obfuscated2/conn.go)                *)
(***************************************************************************)

\* The bytes one stream carries, and the most one underlying Read returns.
MaxObStream == 5
MaxObRead == 2

\* Bytes are bits here; XOR is addition modulo 2.
ObBytes == {0, 1}
ObChunks == UNION {[1..n -> ObBytes] : n \in 0..MaxObRead}

\* The keystream byte of the Decryptor at position i, counted from 1.
KeyByte(i) == i % 2

\* cipher.Stream.XORKeyStream(dst, src) with ks bytes of keystream consumed.
XORKeyStream(src, ks) == [i \in 1..Len(src) |-> (src[i] + KeyByte(ks + i)) % 2]

ObInit ==
    /\ obIn = << >>
    /\ obOut = << >>
    /\ obKs = 0
    /\ obLast = [n |-> 0, err |-> "none"]

\* Conn.Read: the wrapped Read fills p[:n] with chunk and returns failed; on an
\* error p is returned as it is, else it is decrypted in place.
ObRead(chunk, failed) ==
    /\ Len(obIn) + Len(chunk) <= MaxObStream
    /\ failed \/ chunk # << >>
    /\ obIn' = obIn \o chunk
    /\ IF failed
       THEN /\ obOut' = obOut \o chunk
            /\ UNCHANGED obKs
       ELSE /\ obOut' = obOut \o XORKeyStream(chunk, obKs)
            /\ obKs' = obKs + Len(chunk)
    /\ obLast' = [n |-> Len(chunk), err |-> IF failed THEN "err" ELSE "nil"]
    /\ UNCHANGED notObVars

ObNext == \E chunk \in ObChunks, failed \in BOOLEAN : ObRead(chunk, failed)

(***************************************************************************)
(*   LRUDNSCache (network package)                                         *)
(***************************************************************************)

\* NewLRUDNSCache's maxSize, and the host names looked up.
DNSMaxSize == 2
NumHosts == 3
Hosts == 1..NumHosts

\* The largest ttl of a Set, the time the clock stops at, and the Set and Get
\* calls in all.
MaxTTL == 2
MaxDNSTime == 3
MaxCacheOps == 6

\* The keys of the map cache.
CacheKeys(l) == {l[i].key : i \in 1..Len(l)}

\* elem, ok := c.cache[key]: the place of key in the list, 0 when it has none.
ElemOf(l, k) == IF k \in CacheKeys(l) THEN CHOOSE i \in 1..Len(l) : l[i].key = k ELSE 0

\* list.Remove(elem) together with delete(c.cache, key).
ListRemove(l, i) == SubSeq(l, 1, i - 1) \o SubSeq(l, i + 1, Len(l))

\* list.MoveToFront(elem).
MoveToFrontNot(l, i) == l
MoveToFront(l, i) == <<l[i]>> \o ListRemove(l, i)

\* DNSCacheEntry.Expired: time.Now().After(e.ExpiresAt).
Expired(e, t) == t > e.expiresAt

DNSInit ==
    /\ lruList = << >>
    /\ dnsNow = 0
    /\ dnsClock = 0
    /\ dnsTouch = [k \in Hosts |-> 0]
    /\ dnsLast = [op |-> "none", key |-> 0, hit |-> FALSE, evicted |-> 0]

\* LRUDNSCache.Get.
DNSGet(k) ==
    /\ dnsClock < MaxCacheOps
    /\ dnsClock' = dnsClock + 1
    /\ LET i == ElemOf(lruList, k)
       IN  IF i = 0
           THEN /\ dnsLast' = [op |-> "Get", key |-> k, hit |-> FALSE, evicted |-> 0]
                /\ UNCHANGED <<lruList, dnsTouch>>
           ELSE IF Expired(lruList[i], dnsNow)
           THEN /\ lruList' = ListRemove(lruList, i)
                /\ dnsTouch' = [dnsTouch EXCEPT ![k] = 0]
                /\ dnsLast' = [op |-> "Get", key |-> k, hit |-> FALSE, evicted |-> 0]
           ELSE /\ lruList' = MoveToFront(lruList, i)
                /\ dnsTouch' = [dnsTouch EXCEPT ![k] = dnsClock']
                /\ dnsLast' = [op |-> "Get", key |-> k, hit |-> TRUE, evicted |-> 0]
    /\ UNCHANGED <<dnsNow, notDnsVars>>

\* LRUDNSCache.Set: an entry of the key is moved to the front and given the new
\* value; a new entry is pushed to the front, and the back is removed when the
\* list is longer than maxSize.
DNSSet(k, ttl) ==
    /\ dnsClock < MaxCacheOps
    /\ dnsClock' = dnsClock + 1
    /\ LET i == ElemOf(lruList, k)
           entry == [key |-> k, expiresAt |-> dnsNow + ttl]
           pushed == <<entry>> \o lruList
       IN  IF i # 0
           THEN /\ lruList' = <<entry>> \o Tail(MoveToFront(lruList, i))
                /\ dnsTouch' = [dnsTouch EXCEPT ![k] = dnsClock']
                /\ dnsLast' = [op |-> "Set", key |-> k, hit |-> TRUE, evicted |-> 0]
           ELSE IF Len(pushed) > DNSMaxSize
           THEN LET oldest == pushed[Len(pushed)]
                IN  /\ lruList' = ListRemove(pushed, Len(pushed))
                    /\ dnsTouch' = [[dnsTouch EXCEPT ![k] = dnsClock']
                                        EXCEPT ![oldest.key] = 0]
                    /\ dnsLast' = [op |-> "Set", key |-> k, hit |-> FALSE,
                                   evicted |-> oldest.key]
           ELSE /\ lruList' = pushed
                /\ dnsTouch' = [dnsTouch EXCEPT ![k] = dnsClock']
                /\ dnsLast' = [op |-> "Set", key |-> k, hit |-> FALSE, evicted |-> 0]
    /\ UNCHANGED <<dnsNow, notDnsVars>>

\* LRUDNSCache.CleanupExpired: the entries that have not expired stay, in order.
RECURSIVE KeepFresh(_, _)
KeepFresh(l, t) ==
    IF l = << >> THEN << >>
    ELSE IF Expired(Head(l), t) THEN KeepFresh(Tail(l), t)
    ELSE <<Head(l)>> \o KeepFresh(Tail(l), t)

DNSCleanupExpired ==
    /\ lruList' = KeepFresh(lruList, dnsNow)
    /\ dnsTouch' = [k \in Hosts |->
                       IF k \in CacheKeys(lruList') THEN dnsTouch[k] ELSE 0]
    /\ dnsLast' = [op |-> "CleanupExpired", key |-> 0, hit |-> FALSE, evicted |-> 0]
    /\ UNCHANGED <<dnsNow, dnsClock, notDnsVars>>

\* Time passes.
DNSTick ==
    /\ dnsNow < MaxDNSTime
    /\ dnsNow' = dnsNow + 1
    /\ UNCHANGED <<lruList, dnsClock, dnsTouch, dnsLast, notDnsVars>>

DNSNext ==
    \/ \E k \in Hosts : DNSGet(k)
    \/ \E k \in Hosts, ttl \in 1..MaxTTL : DNSSet(k, ttl)
    \/ DNSCleanupExpired
    \/ DNSTick

(***************************************************************************)
(*   stableBloomFilterWithMetrics on its own (antireplay package)          *)
(***************************************************************************)

\* SeenBefore calls in all.
MaxFilterCalls == 5

FilterInit ==
    /\ fseen = {}
    /\ fret = << >>
    /\ fcalls = 0

\* stableBloomFilterWithMetrics.SeenBefore (lines 23-38) for digest d; r is the cell the
\* filter's random decrement falls on.
FilterSeenBefore ==
    /\ fcalls < MaxFilterCalls
    /\ \E d \in SIDs, r \in Cells :
          /\ fret' = Append(fret, [d |-> d, prior |-> d \in fseen,
                                   seen |-> SeenBefore(cells, d)])
          /\ cells' = AfterSeenBefore(cells, d, r)
          /\ fseen' = fseen \cup {d}
    /\ fcalls' = fcalls + 1
    /\ UNCHANGED notFlVars

FilterNext == FilterSeenBefore

(***************************************************************************)
(*                          Specifications                                 *)
(***************************************************************************)

Init == RLInit /\ PoolInit /\ ProxyInit /\ EventsInit /\ RelayInit
        /\ ShutdownInit /\ RewindInit /\ FilterInit /\ TLSInit /\ AddrInit /\ CBInit
        /\ TCInit /\ ObInit /\ DNSInit

\* The limiter and the pool do not read the proxy's options.
InitDefault == Init /\ cfg = DefaultConfig

SpecRL == InitDefault /\ [][RLNext]_vars

SpecPool == InitDefault /\ [][PoolNext]_vars

SpecProxy == Init /\ [][ProxyNext]_vars

SpecFilter == InitDefault /\ [][FilterNext]_vars

SpecTLS == InitDefault /\ [][TLSNext]_vars

SpecAddr == InitDefault /\ [][AddrNext]_vars

SpecBreaker == InitDefault /\ [][CBNext]_vars

SpecTraffic == InitDefault /\ [][TCNext]_vars

SpecObfs == InitDefault /\ [][ObNext]_vars

SpecDNS == InitDefault /\ [][DNSNext]_vars

SpecEvents == InitDefault /\ [][EventsNext]_vars

SpecShutdown == InitDefault /\ [][ShutdownNext]_vars

SpecRewind == InitDefault /\ [][RewindNext]_vars

SpecRelay == InitDefault /\ [][RelayNext]_vars

\* The goroutines of Relay are scheduled fairly; nothing is assumed of the peers.
SpecRelayFair == SpecRelay /\ WF_vars(RelayProgram)

\* The number of times socket s sits in the idle queues.
RECURSIVE CountIn(_, _)
CountIn(q, s) ==
    IF q = << >> THEN 0
    ELSE (IF Head(q) = s THEN 1 ELSE 0) + CountIn(Tail(q), s)

IdleCount(s) ==
    LET f[S \in SUBSET DCs] ==
            IF S = {} THEN 0
            ELSE LET d == CHOOSE x \in S : TRUE
                 IN  CountIn(conns[d], s) + f[S \ {d}]
    IN  f[DCs]

\* The parties that hold socket s outside the queue: lease wrappers not yet closed,
\* Put calls in progress, and a sweep that has taken it out to look at it.
Holders(s) ==
    Cardinality({p \in Procs : lease[p].sock = s /\ ~lease[p].closed})
    + Cardinality({p \in Procs : lease[p].sock = s /\ pcall[p].op = "put"})
    + Cardinality({dc \in DCs : sw[dc].pc = "hold" /\ sw[dc].hold = s})

\* C4: Get never hands out a connection it dequeued that fails the health predicate at
\* that moment; such a connection is closed, counted as unhealthy and skipped (it is
\* never idle or leased again).
C4_GetSkipsUnhealthy ==
    /\ \A p \in Procs : handout[p] # "hit_unhealthy"
    /\ \A s \in Socks : deadBy[s] = "get" =>
            sock[s].st = "closed" /\ IdleCount(s) = 0 /\ Holders(s) = 0
    /\ \A dc \in DCs : stats[dc].unhealthy =
            Cardinality({s \in Socks : sock[s].dc = dc /\ deadBy[s] \in {"get", "put", "sweep"}})

\* C4 witness: a Get has dropped an expired idle connection and gone on to dial a new one.
C4_Witness ==
    \E p \in Procs, s \in Socks :
        /\ deadBy[s] = "get"
        /\ handout[p] = "dial"
        /\ lease[p].sock # s
        /\ sock[lease[p].sock].dc = sock[s].dc
        /\ sock[lease[p].sock].createdAt > sock[s].lastUsedAt + DefaultIdleTimeout

\* C5: every pooled connection is idle in its own sub-pool's queue exactly once, or
\* held by exactly one party, or closed; and a lease wrapper releases its connection
\* at most once however often Close and ForceClose are called.
C5_OneOwner ==
    /\ \A s \in Socks :
          CASE sock[s].st = "open" ->
                  /\ IdleCount(s) + Holders(s) = 1
                  /\ \A dc \in DCs : CountIn(conns[dc], s) > 0 => sock[s].dc = dc
            [] OTHER -> IdleCount(s) + Holders(s) = 0
    /\ \A p \in Procs : lease[p].released <= 1

\* C5 witness: a connection went back to the queue through Close, and Close was called
\* again on the same wrapper while another goroutine holds a lease.
C5_Witness ==
    \E p, q \in Procs :
        /\ p # q
        /\ lease[p].closed /\ lease[p].released = 1
        /\ IdleCount(lease[p].sock) = 1
        /\ lease[q].kind = "pooled" /\ ~lease[q].closed
        /\ handout[q] = "hit"

(***************************************************************************)
(*                  Properties of Proxy.ServeConn                          *)
(***************************************************************************)

\* C1: a connection that failed the FakeTLS stage (unreadable record, ClientHello that
\* does not parse, wrong host or time, SessionID seen before) is handed to domain
\* fronting with its client socket open, and never reaches the Obfuscated2 handshake
\* or a Telegram dial.
C1_FailureGoesToFronting ==
    \A p \in Procs :
        cn[p].fail # "none" =>
            /\ (cn[p].stage = "front" /\ cn[p].client = "open") \/ cn[p].fronted
            /\ cn[p].stage \in {"front", "relay_front"} => cn[p].client = "open"
            /\ cn[p].stage \in {"front", "relay_front", "idle"}
            /\ cn[p].hs1 = "none" /\ cn[p].first = "none" /\ lease[p] = NoLease

\* C1 witness: one connection with an unreadable or malformed first record is about to
\* dial the fronting host while a replayed one is already being relayed to it.
C1_Witness ==
    \E p, q \in Procs :
        /\ cn[p].fail \in {"readerr", "parseerr", "invalid"} /\ cn[p].stage = "front"
        /\ cn[q].fail = "replay" /\ cn[q].stage = "relay_front" /\ cn[q].client = "open"

\* C2: while the filter retains a SessionID, at most one connection presenting it gets
\* past the filter; any other is told "seen before" and goes to domain fronting.
C2_OneAdmission ==
    /\ \A sid \in SIDs : passed[sid] <= 1
    /\ \A p \in Procs : cn[p].fail = "replay" =>
            (cn[p].stage = "front" /\ cn[p].sid \in SIDs) \/ cn[p].fronted

\* C2 witness: two concurrent connections with the same SessionID, one past the FakeTLS
\* handshake and the other routed to fronting as a replay.
C2_Witness ==
    \E p, q \in Procs :
        /\ p # q
        /\ cn[p].sid \in SIDs /\ cn[p].sid = cn[q].sid
        /\ cn[p].stage = "obfs2" /\ cn[p].fail = "none"
        /\ cn[q].stage = "front" /\ cn[q].fail = "replay"
        /\ passed[cn[p].sid] = 1

\* C3: whenever a relay is running on a client connection, to Telegram or to the
\* fronting host, the handshake deadline on the client socket has been cleared.
C3_DeadlineCleared ==
    \A p \in Procs : cn[p].stage \in {"relay", "relay_front"} => ~cn[p].dl

\* C6: a DC connection that ServerHandshake was run on is never idle in the pool nor on
\* its way back to it; while open it is held unwrapped by the one stream relaying on
\* it, and it is closed once that stream ends.
C6_NoReturnAfterHandshake ==
    \A s \in hsRun :
        /\ IdleCount(s) = 0
        /\ \A p \in Procs : ~(pcall[p].op = "put" /\ lease[p].sock = s)
        /\ sock[s].st = "open" =>
              \E p \in Procs : /\ cn[p].stage = "relay"
                               /\ lease[p].sock = s
                               /\ lease[p].kind = "raw"
        /\ sock[s].st \in {"open", "closed"}

\* C6 witness: one pooled connection was closed by the relay after a good handshake,
\* another was force-closed after a failed one.
C6_Witness ==
    \E s, u \in hsRun :
        /\ sock[s].via = "pool" /\ sock[s].st = "closed" /\ deadBy[s] = "close"
        /\ sock[u].via = "pool" /\ sock[u].st = "closed" /\ deadBy[u] = "force"

\* C7: after a broken pipe or connection reset on the first ServerHandshake the leased
\* connection is closed and not in the pool, and one retry is made on a directly dialed
\* connection; a failed retry ends the stream; any other handshake error ends the
\* stream without a retry.
C7_RetryOnce ==
    \A p \in Procs :
        LET c == cn[p]
        IN  /\ c.retries <= 1
            /\ c.hs1 \in {"epipe", "econnreset"} =>
                  /\ sock[c.leased].st = "closed"
                  /\ IdleCount(c.leased) = 0
                  /\ \A q \in Procs : pcall[q].op # "put"
                  /\ (c.stage = "retry" /\ c.retries = 0) \/ c.retries = 1
            /\ c.retries = 1 =>
                  /\ c.hs1 \in {"epipe", "econnreset"}
                  /\ c.retry # 0 => sock[c.retry].via = "direct" /\ c.retry # c.leased
                  /\ \/ /\ c.stage = "relay"
                        /\ c.retry # 0 /\ lease[p].sock = c.retry
                        /\ sock[c.retry].st = "open"
                     \/ /\ c.stage = "idle"
                        /\ c.retry # 0 => sock[c.retry].st = "closed"
            /\ c.hs1 = "other" =>
                  c.retries = 0 /\ c.stage = "idle" /\ sock[c.leased].st = "closed"
            /\ c.hs1 = "ok" => c.retries = 0
            /\ c.stage = "retry" => c.hs1 \in {"epipe", "econnreset"}

\* C7 witness: a stream relaying on the connection its one retry dialed, after a broken
\* pipe on a connection leased from the pool.
C7_Witness ==
    \E p \in Procs :
        /\ cn[p].hs1 = "epipe" /\ cn[p].retries = 1 /\ cn[p].stage = "relay"
        /\ sock[cn[p].leased].via = "pool" /\ deadBy[cn[p].leased] = "force"
        /\ sock[cn[p].retry].via = "direct"

C9_SizeWithinCap == Cardinality(Tracked) <= RateLimiterCap /\ ~overCap

\* C10: in any one-second window at most burst + rate Allow calls for one address
\* return true.
C10_RateBound == \A ip \in IPs : Len(admitLog[ip]) <= rl_b + rl_r

\* C11: a connection the rate limiter refused does no other work. Its ServeConn
\* invocation read nothing, made no stream context, ran no handshake and no anti-replay
\* lookup, sent no Start and no Finish event; it sent exactly one ConcurrencyLimited
\* event and closed the socket.
C11_RateLimitedDoesNoWork ==
    \A p \in Procs :
        (cn[p].ev # << >> /\ Head(cn[p].ev) = "ConcurrencyLimited") =>
            /\ cn[p].ev = <<"ConcurrencyLimited">>
            /\ cn[p].did = {}
            /\ cn[p].stage = "idle"
            /\ cn[p].client = "closed"
            /\ cn[p].sid = 0
            /\ pcall[p] = NoCall /\ lease[p] = NoLease

C11_Witness ==
    \E p \in Procs :
        /\ cn[p].ev = <<"ConcurrencyLimited">>
        /\ cn[p].client = "closed"
        /\ \E q \in Procs \ {p} : cn[q].stage = "relay"

\* C19: when the client's frame selects a DC outside the known ones and fallback on
\* an unknown DC is off, the pipeline starts no dial, pooled or direct, closes the
\* connection and logs nothing at warning level.
C19_InvalidDCSilentClose ==
    \A p \in Procs :
        (cn[p].badDC /\ ~cfg.allowFallbackOnUnknownDC) =>
            /\ cn[p].stage = "idle"
            /\ cn[p].client = "closed"
            /\ ~cn[p].warn
            /\ pcall[p] = NoCall /\ lease[p] = NoLease /\ handout[p] = "none"

C19_Witness ==
    \E p \in Procs :
        /\ cn[p].badDC /\ ~cfg.allowFallbackOnUnknownDC
        /\ cn[p].did = {"ctx", "read", "antireplay"}
        /\ cn[p].ev = <<"Start", "Finish">>

\* C18: once the pool manager's Close has returned (the last step of Shutdown), no
\* sweeper goroutine is left running for good: every sweeper that was started has
\* stopped or has had its stop channel closed, also when a Dial raced with the Close.
C18_NoSweeperAfterClose ==
    mClosed => \A dc \in DCs : sw[dc].pc \in {"off", "stopped"} \/ pClosed[dc]

\* The events that wait in a shard's queue or that its observer was invoked for.
InShard(sh) ==
    {chans[sh][k] : k \in 1..Len(chans[sh])} \cup {got[sh][k] : k \in 1..Len(got[sh])}

\* C12: a Traffic Send never waits, and whenever it finds its shard's queue full the
\* event is discarded and the dropped counter goes up by exactly one: the counter
\* equals the number of Traffic Sends that found the queue full.
C12_FullQueueCounted ==
    /\ dropped = fullSeen
    /\ \A p \in Senders :
          (snd[p].pc = "select" /\ snd[p].evt.kind = "Traffic") => ENABLED SendSelect(p)

\* C13: while the event stream is not shut down, no event other than Traffic is
\* discarded: every such event whose Send has returned waits in its shard's queue or
\* was handed to the shard's observer.
C13_NoneDiscarded ==
    ~esDone =>
        \A e \in returned : e.kind # "Traffic" => \E sh \in Shards : e \in InShard(sh)

C15_CancelLeadsToReturn == rctx ~> rret

\* C16: when one pump has ended, only the reading half of its source and the writing
\* half of its destination are shut, so the other pump can go on copying; no
\* connection is fully closed and Relay does not return before both pumps have ended.
C16_OnlyOwnEndpoints ==
    /\ \A e \in Ends : rconn[e].closed => \A d \in Dirs : pump[d].pc = "exited"
    /\ rret => \A d \in Dirs : pump[d].pc = "exited"
    /\ \A d \in Dirs :
          (pump[d].pc = "exited" /\ pump[Other(d)].pc # "exited" /\ cg = "wait") =>
              /\ rconn[Src(d)].rd = "shut" /\ rconn[Dst(d)].wr = "shut"
              /\ rconn[Src(d)].wr = "open" /\ rconn[Dst(d)].rd = "open"

C16_Witness ==
    \E d \in Dirs :
        /\ pump[d].pc = "exited" /\ pump[Other(d)].pc = "read"
        /\ pump[Other(d)].late
        /\ ~rret /\ ~rctx
        /\ \A e \in Ends : ~rconn[e].closed

\* C17: once Shutdown has got past streamWaitGroup.Wait (and so before it stops the
\* limiter, closes the DC pools or returns), no connection that Serve dispatched is
\* inside ServeConn or still waiting for its worker to enter ServeConn.
C17_ShutdownWaitsForDispatched ==
    sd \in {"release", "stop", "close", "returned"} => \A w \in Workers : worker[w] = "idle"

\* C20: after Rewind the reads give the client's byte stream from its first byte:
\* what they have returned so far, then what c.buf still holds, then what is not yet
\* read from the connection, is the whole stream, each byte once and in order.
C20_RewindReplaysStream ==
    rwActive = "multi" => rwOut \o rwBuf \o Drop(rwStream, rwPos) = rwStream

C20_Witness ==
    /\ rwActive = "multi"
    /\ Len(rwPre) >= 2 /\ rwPre[1] # rwPre[2]
    /\ Len(rwOut) > Len(rwPre)
    /\ rwOut = rwStream

\* C21: SeenBefore has no false negatives: a call for a digest that an earlier call on
\* the same filter was given returns true, whatever was inserted in between.
C21_NoFalseNegatives == \A i \in 1..Len(fret) : fret[i].prior => fret[i].seen

\* The sockets in the idle queue of dc.
Idle(dc) == {conns[dc][k] : k \in 1..Len(conns[dc])}

\* C22: under every interleaving of Get, Put, sweeps and Close the idle queue of a
\* pool never holds more than max_idle connections, and a connection whose Put found
\* the queue full is closed and is not in any queue.
C22_IdleNeverExceedsMax ==
    /\ \A dc \in DCs : Len(conns[dc]) <= MaxIdleConns
    /\ \A s \in Socks : deadBy[s] = "full" =>
            /\ sock[s].st = "closed"
            /\ \A dc \in DCs : s \notin Idle(dc)

C22_Witness ==
    \E s \in Socks :
        /\ deadBy[s] = "full"
        /\ Len(conns[sock[s].dc]) = MaxIdleConns
        /\ \E u \in Idle(sock[s].dc) : sock[u].st = "open"

\* C23: a pooled connection is healthy exactly when now - last_used < idle_timeout and
\* now - created_at < max_age, both strict: one idle for exactly idle_timeout, or
\* exactly max_age old, is unhealthy.
C23_HealthyIffStrictlyWithin ==
    \A s \in Socks : sock[s].st = "open" /\ sock[s].via = "pool" =>
        (isHealthy(sock[s], now) <=>
            /\ now - sock[s].lastUsedAt < DefaultIdleTimeout
            /\ now - sock[s].createdAt < maxConnectionAge)

\* A step in which a Get takes the head of the idle queue of dc: the sweep and Close
\* take from the queue too, and move sw[dc] or mClosed with it.
GetDequeues(dc) ==
    /\ conns[dc] # << >>
    /\ conns'[dc] = Tail(conns[dc])
    /\ sw'[dc] = sw[dc]
    /\ mClosed' = mClosed

\* C24: a connection that was got, put back, and is still healthy when the next Get
\* on its pool dequeues it, is returned by that Get as a hit: hits goes up by one,
\* created and misses (the dials) stay as they are, and the connection stays open and
\* is the caller's.
C24_PutThenGetIsHit ==
    [][\A dc \in DCs :
        GetDequeues(dc) /\ isHealthy(sock[Head(conns[dc])], now) =>
            /\ stats'[dc].hits = stats[dc].hits + 1
            /\ stats'[dc].created = stats[dc].created
            /\ stats'[dc].misses = stats[dc].misses
            /\ sock'[Head(conns[dc])].st = "open"
            /\ \E p \in Procs :
                /\ pcall[p] = [op |-> "get", dc |-> dc]
                /\ pcall'[p].op = "ok"
                /\ lease'[p].sock = Head(conns[dc])]_vars

C24_Witness ==
    \E p \in Procs, dc \in DCs :
        /\ handout[p] = "hit" /\ pcall[p] = [op |-> "ok", dc |-> dc]
        /\ stats[dc].hits = 1 /\ stats[dc].misses = 1 /\ stats[dc].created = 1
        /\ sock[lease[p].sock].st = "open"
        /\ sock[lease[p].sock].createdAt < now

\* C25: Put does exactly one of two things with its connection.  Handed to a pool
\* that does not exist or that it finds closed, it closes the connection and enqueues
\* nothing; past that check it closes the connection when it is unhealthy or the
\* queue is full, leaving the queue as it was, and otherwise sets last_used to now and
\* appends the connection, still open, to the queue.
C25_PutClosesOrEnqueues ==
    [][\A p \in Procs :
        LET s == lease[p].sock
            dc == sock[s].dc
        IN  /\ pcall[p].op = "put" /\ pcall'[p].op = "none" =>
                IF isHealthy(sock[s], now) /\ Len(conns[dc]) < MaxIdleConns
                THEN /\ conns'[dc] = Append(conns[dc], s)
                     /\ sock'[s].st = "open"
                     /\ sock'[s].lastUsedAt = now
                ELSE /\ conns' = conns
                     /\ sock'[s].st = "closed"
            /\ (/\ lease[p].kind = "pooled" /\ ~lease[p].closed /\ lease'[p].closed
                /\ deadBy'[s] # "force") =>
                IF dc \notin pools \/ pClosed[dc]
                THEN /\ conns' = conns
                     /\ sock'[s].st = "closed"
                     /\ pcall'[p].op # "put"
                ELSE /\ conns' = conns
                     /\ sock'[s].st = "open"
                     /\ pcall'[p] = [op |-> "put", dc |-> dc]]_vars

C25_Witness ==
    \E s, u \in Socks, dc \in DCs :
        /\ s \in Idle(dc) /\ sock[s].st = "open"
        /\ stats[dc].hits = 0
        /\ sock[s].lastUsedAt > sock[s].createdAt
        /\ deadBy[u] = "put" /\ sock[u].st = "closed" /\ sock[u].dc = dc

\* C29: once Close of a pool has returned, and every Put and every sweep that
\* overlapped it has finished (no Put is past its closed check, the cleanup loop has
\* returned), the idle queue is empty: no connection is left in it unclosed.
C29_NothingStrandedAfterClose ==
    \A dc \in DCs :
        (/\ pClosed[dc]
         /\ \A p \in Procs : pcall[p] # [op |-> "put", dc |-> dc]
         /\ sw[dc].pc = "stopped") => conns[dc] = << >>

RECURSIVE Records(_)
Records(w) ==
    IF Len(w) = 0 THEN << >>
    ELSE LET r == RecordRead(w)
         IN  IF r.ok THEN <<[type |-> r.type, version |-> r.version, payload |-> r.payload]>>
                            \o Records(r.rest)
             ELSE <<[type |-> 0, version |-> 0, payload |-> w]>>

\* The payloads of the ApplicationData records among recs, joined in order.
RECURSIVE Payloads(_)
Payloads(recs) ==
    IF Len(recs) = 0 THEN << >>
    ELSE (IF Head(recs).type = TypeApplicationData THEN Head(recs).payload ELSE << >>)
            \o Payloads(Tail(recs))

\* C26: one Write of N bytes puts on the connection ApplicationData records only:
\* floor(N / TLSMaxWriteRecordSize) records of exactly TLSMaxWriteRecordSize payload
\* bytes, then one shorter record with the remainder when there is one; no
\* ChangeCipherSpec record and no other byte among them.
C26_FullRecordsThenRemainder ==
    LET recs == Records(lastWrite.out)
        full == lastWrite.n \div TLSMaxWriteRecordSize
        rem == lastWrite.n % TLSMaxWriteRecordSize
    IN  /\ Len(recs) = full + (IF rem > 0 THEN 1 ELSE 0)
        /\ \A i \in 1..Len(recs) :
            /\ recs[i].type = TypeApplicationData
            /\ recs[i].version = Version12
            /\ Len(recs[i].payload) = IF i <= full THEN TLSMaxWriteRecordSize ELSE rem

C26_Witness ==
    /\ lastWrite.n > 2 * TLSMaxWriteRecordSize
    /\ lastWrite.n % TLSMaxWriteRecordSize # 0
    /\ Len(Records(lastWrite.out)) = 3
    /\ \E i, j \in 1..Len(tlsSent) : tlsSent[i] # tlsSent[j]

\* C27: what Write split into records comes back from Read as the same bytes in the
\* same order, for every size of read buffer and with ChangeCipherSpec records of
\* the peer among them: the bytes returned so far, then those waiting in readBuffer,
\* then the ApplicationData payloads still on the connection, are the bytes written.
C27_WriteThenReadRoundTrip ==
    tlsGot \o readBuffer \o Payloads(Records(tlsWire)) = tlsSent

C27_Witness ==
    /\ Len(tlsSent) > 2 * TLSMaxWriteRecordSize
    /\ \E i, j \in 1..Len(tlsSent) : tlsSent[i] # tlsSent[j]
    /\ tlsGot = tlsSent
    /\ nInject > 0 /\ Len(tlsWire) = 0
    /\ lastRead.skipped > 0 /\ lastRead.err = "nil"
    /\ lastRead.n < TLSMaxWriteRecordSize

\* C28: a Read that has to take records from the connection passes over every
\* ChangeCipherSpec record without a sign of it; the first record of another type
\* decides the call.  ApplicationData: the call returns the front of its payload.  Any other type: the call returns an error and no byte, and nothing
\* of that record's payload is kept for a later Read.
C28_SkipCCSFailOnOthers ==
    [][(Len(readBuffer) = 0 /\ lastRead' # lastRead /\ tlsWire' # tlsWire) =>
        LET recs == Records(tlsWire)
            others == {i \in 1..Len(recs) : recs[i].type # TypeChangeCipherSpec}
        IN  IF others = {}
            THEN /\ Len(tlsWire') = 0
                 /\ lastRead'.err = "waiting" /\ lastRead'.n = 0
                 /\ tlsGot' = tlsGot /\ readBuffer' = readBuffer
            ELSE LET j == CHOOSE i \in others : \A m \in others : i <= m
                 IN  /\ Records(tlsWire') = SubSeq(recs, j + 1, Len(recs))
                     /\ lastRead'.skipped = j - 1
                     /\ IF recs[j].type = TypeApplicationData
                        THEN /\ lastRead'.err # "unsupported"
                             /\ tlsGot' \o readBuffer' = tlsGot \o recs[j].payload
                             /\ lastRead'.n = Min(lastRead'.k, Len(recs[j].payload))
                             /\ Len(tlsGot') = Len(tlsGot) + lastRead'.n
                        ELSE /\ lastRead'.err = "unsupported" /\ lastRead'.n = 0
                             /\ tlsGot' = tlsGot
                             /\ Len(readBuffer') = 0]_vars

C28_Witness ==
    /\ lastRead.err = "unsupported"
    /\ lastRead.skipped > 0
    /\ lastRead.first = TypeChangeCipherSpec
    /\ Len(tlsGot) > 0 /\ Len(tlsWire) > 0

\* C33: while the sweeper cannot yet have removed anything (no entry is older than
\* 2 x cleanup), concurrent Allow calls for one address make exactly one bucket for it
\* however they interleave, and every call that has got its bucket has got that one.
C33_OneBucketPerAddress ==
    rlNow <= 2 * rl_cleanup =>
        \A ip \in IPs :
            /\ Len(lims[ip]) <= 1
            /\ limiters[ip] = Len(lims[ip])
            /\ \A p \in Callers :
                call[p].pc = "have" /\ call[p].ip = ip =>
                    call[p].lim = 1 /\ limiters[ip] = 1

C33_Witness ==
    \E ip \in IPs :
        /\ \A p \in Callers : call[p] = [pc |-> "have", ip |-> ip, lim |-> 1]
        /\ Len(lims[ip]) = 1
        /\ lims[ip][1] = NewLimiter(rlNow)
        /\ lastUsed[ip] = rlNow

\* C34: the sweeper never removes the bucket of an address for which Allow was called
\* within the last 2 x cleanup: here, of an address that has an admission within the
\* last WindowMs (which is no longer than 2 x cleanup).
C34_SweepSparesRecentlyUsed ==
    [][\A ip \in IPs :
        limiters[ip] # 0 /\ limiters'[ip] = 0 => admitLog[ip] = << >>]_vars

\* C39: with a connection under it that returns no error, Read returns an error,
\* io.EOF included, only for a record of an unsupported type: an ApplicationData
\* record with an empty payload does not make it report the end of the stream.
C39_ErrorOnlyForUnsupported ==
    lastRead.err \notin {"none", "nil", "waiting"} => lastRead.err = "unsupported"

\* C32: the pump started as the download direction (dirDownload, "telegram -> client",
\* high priority) is the one whose chunks go from the Telegram connection to the
\* client connection, and the pump labelled "client -> telegram" carries the client's
\* chunks to Telegram.
C32_DownloadPumpReadsTelegram ==
    \A d \in Dirs :
        pump[d].n > 0 =>
            /\ HighPriority(d) <=> (Src(d) = "telegram" /\ Dst(d) = "client")
            /\ PumpLabel(d) = "telegram -> client" <=> Src(d) = "telegram"
            /\ PumpLabel(d) = "client -> telegram" <=> Src(d) = "client"

\* C31: every dial a sub-pool does on a miss goes through the address list that was
\* given with that Get call, not through a list kept from the creation of the
\* sub-pool.
C31_DialUsesListOfCall ==
    \A i \in 1..Len(dialLog) :
        dialLog[i].list = dialLog[i].asked

\* C35: while the reconnect timeout counted from the last start of a cooldown
\* has not elapsed, no DialContext that begins reaches the underlying dialer,
\* whatever the dials already in flight did since.
C35_CooldownRejectsEveryDial ==
    [][\A p \in Dialers :
          cbCall[p] # "dialing" /\ cbCall'[p] = "dialing" =>
              ~(cbBegan # 0 /\ cbNow < cbBegan + ReconnectTimeout)]_vars

\* C36: once the reconnect timeout has elapsed since the last start of a
\* cooldown, a DialContext that begins goes to the underlying dialer, and a dial
\* that returns a connection leaves the failure count at zero and no cooldown.
C36_DialsAgainAfterTimeout ==
    [][\A p \in Dialers :
          /\ (/\ cbCall[p] # "dialing"
              /\ cbCall'[p] # cbCall[p]
              /\ cbBegan # 0
              /\ cbNow >= cbBegan + ReconnectTimeout) => cbCall'[p] = "dialing"
          /\ cbCall[p] = "dialing" /\ cbCall'[p] = "ok" =>
                 cbFailures' = 0 /\ ~InCooldown(cbUntil', cbNow')]_vars

C36_Witness ==
    \E p \in Dialers :
        /\ cbBegan # 0
        /\ cbStarted[p] >= cbBegan + ReconnectTimeout
        /\ cbCall[p] = "ok"
        /\ cbFailures = 0
        /\ \E q \in Dialers : cbCall[q] = "rejected" /\ cbStarted[q] >= cbBegan

\* C37: once the connection is closed and no Read, Write or flush is in flight,
\* the Traffic events sent for each direction sum to the bytes transferred in
\* that direction.
C37_EventsSumToBytes ==
    (/\ tcClosed
     /\ tcFlush.pc = "idle"
     /\ \A d \in TcDirs : tcOp[d].pc = "idle")
        => \A d \in TcDirs : tcSent[d] = tcMoved[d]

\* C38: every byte Read has reported is the byte the wrapped connection returned
\* at that offset, decrypted with the keystream byte of that offset.
C38_ReportedBytesDecryptedInPlace ==
    /\ Len(obOut) = Len(obIn)
    /\ \A i \in 1..Len(obOut) : obOut[i] = (obIn[i] + KeyByte(i)) % 2

\* C40: the cache never holds more than maxSize entries, one per key, and when a
\* Set of a new key removes an entry, it removes one, the entry whose last Set or
\* successful Get is the oldest of all.
C40_BoundedAndEvictsLeastRecent ==
    /\ [](/\ Len(lruList) <= DNSMaxSize
          /\ Cardinality(CacheKeys(lruList)) = Len(lruList))
    /\ [][\A k \in Hosts :
             (/\ k \notin CacheKeys(lruList)
              /\ k \in CacheKeys(lruList')
              /\ Len(lruList) = DNSMaxSize) =>
                 \E e \in CacheKeys(lruList) :
                     /\ CacheKeys(lruList') = (CacheKeys(lruList) \ {e}) \cup {k}
                     /\ \A o \in CacheKeys(lruList) : dnsTouch[e] <= dnsTouch[o]]_vars

C40_Witness ==
    /\ dnsLast.op = "Set" /\ dnsLast.evicted # 0
    /\ Len(lruList) = DNSMaxSize
    /\ lruList[1].key = dnsLast.key
    /\ dnsLast.evicted \notin CacheKeys(lruList)
    /\ dnsTouch[dnsLast.evicted] = 0
    /\ \A i \in 2..Len(lruList) : dnsTouch[lruList[i].key] = dnsClock - 1
====
